---- MODULE Spec2Model ----
(***************************************************************************)
(* Mini-instabay web client: the pages (SendMoney, Dashboard, Register,    *)
(* Login, TransactionHistory, Reports), the service wrappers they call and *)
(* the pure derivations they display, as one state machine.  One page is   *)
(* mounted per behaviour (the router renders one routed page at a time);   *)
(* the remote services are the environment and answer every pending        *)
(* request with success or failure at any later step.                      *)
(*                                                                         *)
(* Text values the code inspects character by character (phone, amount,    *)
(* password) are sequences of one-character strings.                       *)
(***************************************************************************)
EXTENDS Integers, Sequences, FiniteSets, TLC

\* ------------------------------------------------------------------------
\* Bounds of the model
\* ------------------------------------------------------------------------
\* longest run of digits typed after "+1" in a phone number
MaxTail == 15
\* shortest such run that is enumerated (the short phones are listed one by one)
MinTail == 13
\* longest password typed into the Register form
MaxPwLen == 9
\* longest transaction list the transaction service returns
MaxTx == 6
\* longest history the reporting service returns
MaxHistory == 3
\* bits of the significand of a number (64-bit floats carry 53); sums that
\* need more are rounded to nearest, ties to even
MantissaBits == 3
\* instants per calendar day
TicksPerDay == 2
\* longest history of only 'Send' and 'Receive' transactions, all of them in
\* the selected period
MaxBreakdown == 8
\* most getTransactions requests one mounted TransactionHistory issues
MaxRequests == 3
\* most alerts given to showAlert
MaxAlerts == 3

\* the value of parseFloat on a text without a number
NaN == [nan |-> TRUE, neg |-> FALSE, mant |-> 0, scale |-> 0]

\* ------------------------------------------------------------------------
\* Characters and numbers
\* ------------------------------------------------------------------------
Digits == {"0", "1", "2", "3", "4", "5", "6", "7", "8", "9"}

DigitVal(c) ==
  CASE c = "0" -> 0 [] c = "1" -> 1 [] c = "2" -> 2 [] c = "3" -> 3
    [] c = "4" -> 4 [] c = "5" -> 5 [] c = "6" -> 6 [] c = "7" -> 7
    [] c = "8" -> 8 [] c = "9" -> 9

RECURSIVE Pow10(_)
Pow10(n) == IF n = 0 THEN 1 ELSE 10 * Pow10(n - 1)

\* length of the run of digit characters of s that starts at position i
RECURSIVE DigitRun(_, _)
DigitRun(s, i) ==
  IF i <= Len(s) /\ s[i] \in Digits THEN 1 + DigitRun(s, i + 1) ELSE 0

\* the number written by the digit characters s[i .. i+n-1], skipping a "."
RECURSIVE DigitsValue(_, _, _)
DigitsValue(s, i, n) ==
  IF n = 0 THEN 0
  ELSE IF s[i + n - 1] = "." THEN DigitsValue(s, i, n - 1)
  ELSE 10 * DigitsValue(s, i, n - 1) + DigitVal(s[i + n - 1])

\* JavaScript parseFloat on a text of sign, digit and "." characters: the
\* longest prefix that is a decimal literal, NaN when that prefix has no
\* digit.  The value is (-1)^neg * mant / 10^scale.
parseFloat(s) ==
  LET signLen == IF Len(s) >= 1 /\ s[1] \in {"+", "-"} THEN 1 ELSE 0
      i0 == signLen + 1
      nInt == DigitRun(s, i0)
      dotAt == i0 + nInt
      hasDot == dotAt <= Len(s) /\ s[dotAt] = "."
      nFrac == IF hasDot THEN DigitRun(s, dotAt + 1) ELSE 0
  IN  IF nInt + nFrac = 0 THEN NaN
      ELSE [nan |-> FALSE,
            neg |-> signLen = 1 /\ s[1] = "-",
            mant |-> DigitsValue(s, i0, nInt + (IF nFrac > 0 THEN 1 + nFrac ELSE 0)),
            scale |-> nFrac]

isNaN(v) == v.nan

\* signed mantissa of a parsed number
Signed(v) == IF v.neg THEN 0 - v.mant ELSE v.mant

\* v >= c/100, v <= c/100, v > c/100 and v < c/100 for a parsed number v and
\* a number of hundredths c (balances are held in hundredths)
GeCents(v, c) == Signed(v) * 100 >= c * Pow10(v.scale)
LeCents(v, c) == Signed(v) * 100 <= c * Pow10(v.scale)
GtCents(v, c) == ~LeCents(v, c)
LtCents(v, c) == ~GeCents(v, c)

\* ------------------------------------------------------------------------
\* URLs: an origin ("" for a relative URL) and the path segments
\* ------------------------------------------------------------------------
Url(origin, path) == [origin |-> origin, path |-> path]
\* the template string `${base}/${segment}`
Slash(base, segment) == [origin |-> base.origin, path |-> Append(base.path, segment)]

USER_API_URL == Url("http://service1.runasp.net", <<"api", "User">>)
TRANSACTION_API_URL == Url("http://service2.runasp.net", <<"api", "Transaction">>)
API_URL == Url("http://service1.runasp.net", <<"api", "User">>)

BASE_USER_API == Url("", <<"api", "User">>)
BASE_TRANSACTION_API == Url("", <<"api", "Transaction">>)
BASE_REPORT_API == Url("", <<"api">>)

API_ENDPOINTS ==
  [user |-> [login |-> Slash(BASE_USER_API, "Login"),
             register |-> Slash(BASE_USER_API, "Register")],
   report |-> [history |-> [userId \in {"u1"} |->
                              Slash(Slash(BASE_REPORT_API, "Report"), userId)],
               summary |-> [userId \in {"u1"} |->
                              Slash(Slash(Slash(BASE_REPORT_API, "Report"), "Summary"), userId)]]]

\* a call of a service wrapper and the HTTP request it issues
Call(service, method, url, args) ==
  [service |-> service, method |-> method, url |-> url, args |-> args]

getUserInfoCall(userId) == Call("getUserInfo", "GET", Slash(USER_API_URL, userId), <<userId>>)
getBalanceCall(userId) == Call("getBalance", "GET", Slash(USER_API_URL, userId), <<userId>>)
getTransactionsCall(userId) ==
  Call("getTransactions", "GET", Slash(TRANSACTION_API_URL, userId), <<userId>>)
updateBalanceCall(userId, newBalance) ==
  Call("updateBalance", "PUT", Slash(USER_API_URL, userId), <<userId, newBalance>>)
sendMoneyCall(sender, receiverPhone, amount) ==
  Call("sendMoney", "POST", TRANSACTION_API_URL, <<sender, receiverPhone, amount>>)
getHistoryCall(userId) ==
  Call("getHistory", "GET", API_ENDPOINTS.report.history[userId], <<userId>>)
getSummaryCall(userId) ==
  Call("getSummary", "GET", API_ENDPOINTS.report.summary[userId], <<userId>>)
loginUserCall(email, password) ==
  Call("loginUser", "POST", Slash(API_URL, "Login"), <<email, password>>)
registerUserCall(name, email, password, phoneNumber) ==
  Call("registerUser", "POST", Slash(API_URL, "Register"), <<name, email, password, phoneNumber>>)

\* messages of the errors the transport layer rejects with
TransportErrors == {"Network Error", "Request failed with status code 500"}

\* ------------------------------------------------------------------------
\* Messages shown to the user
\* ------------------------------------------------------------------------
\* showAlert(type, message) and an inline error message (setError)
Alert(type, message) == [via |-> "alert", type |-> type, message |-> message]
Inline(message) == [via |-> "inline", type |-> "error", message |-> message]
Nothing == [via |-> "none", type |-> "", message |-> ""]

\* ------------------------------------------------------------------------
\* The last step taken: its kind, and for a step that received a response the
\* URL of the request and whether the request failed
\* ------------------------------------------------------------------------
NoUrl == Url("", <<>>)
Ev(kind) == [kind |-> kind, url |-> NoUrl, failed |-> FALSE]
\* a rejection that reached the handler's catch block
Failure(url) == [kind |-> "failure", url |-> url, failed |-> TRUE]
\* a response that no code is waiting for any more, or that leaves the
\* Promise.all pending
Late(url, failed) == [kind |-> "response", url |-> url, failed |-> failed]
\* steps the user or the router starts
UserEvents == {"mount", "submit", "click"}

\* ------------------------------------------------------------------------
\* Session user (useAuth().user): undefined while auth loads, null when
\* logged out, otherwise an object whose id may be missing
\* ------------------------------------------------------------------------
UserUndefined == [kind |-> "undefined", id |-> ""]
UserNull == [kind |-> "null", id |-> ""]
UserObject(id) == [kind |-> "user", id |-> id]
Users == {UserUndefined, UserNull, UserObject(""), UserObject("u1")}
\* user?.id, "" standing for every falsy value
UserId(u) == IF u.kind = "user" THEN u.id ELSE ""

Pages == {"send", "dashboard", "register", "login", "history", "reports"}
\* what is followed in a behaviour: one routed page, or the App component
\* that routes ("app")
Views == Pages \cup {"app", "alerts"}

VARIABLES
  page,           \* the routed page that is mounted, "app", or "alerts" (the
                  \* AlertProvider)
  user,           \* useAuth().user
  event,          \* the last step: init, mount, edit, submit, click, timer,
                  \* success, failure, response
  failedUrls,     \* URLs whose request failed since the last mount or user action
  lastAuth,       \* the last authService call settled: function, outcome, result
  issued,         \* the service calls the last step made, in order
  shown,          \* the alert or inline error the last step showed, or Nothing
  \* SendMoney
  receiverPhone, phoneTouched, amount, amountTouched, sendLoading, userInfo,
  infoReq,        \* the on-mount getUserInfo: init, skipped, pending, settled
  sendPhase,      \* where handleSubmit is suspended: idle, sendMoney, getUserInfo
  sendNav,        \* the navigate('/dashboard') timer: none, timer, dashboard
  submitLog,      \* of the last submit: how its transfer went (none, pending, ok,
                  \* fail) and the types of the alerts its handler has shown
  \* Register
  regPassword, regConfirmPassword, regError, regIsLoading,
  regPhase,       \* where handleSubmit is suspended: idle, register, left (navigated)
  \* Login
  loginError, loginIsLoading,
  loginPhase,     \* where handleSubmit is suspended: idle, login, left (navigated)
  \* Dashboard
  dashLoading, balance, recentTransactions, newBalance, updating,
  dashFetch,      \* fetchDashboardData: init, skipped, running, settled
  dashTx,         \* the getTransactions request of Promise.all: status and data
  dashBal,        \* the getBalance request of Promise.all: status and data
  updateResponse, \* how the last updateBalance request settled: status, newbalance
  \* TransactionHistory
  histLoading, transactions, isRefreshing,
  histFetch,      \* fetchUserTransactions: init, skipped, pending, settled
  histRefresh,    \* handleRefresh: idle, pending
  histReqs,       \* the getTransactions requests of the page that are in flight
  histIssued,     \* how many getTransactions requests the page has issued
  histWriter,     \* the request whose settlement last set transactions, or 0
  histLog,        \* of each request issued, in order: by, userId and status
                  \* (pending, ok, fail)
  timeFrame,      \* the selected time frame
  \* Reports
  repLoading, historyData, overallSummary, reportPeriod, repError,
  repFetch,       \* fetchReportData: init, skipped, running, settled
  repHist,        \* the getHistory request of Promise.all: status and data
  repSum,         \* the getSummary request of Promise.all: status and data
  now,            \* the clock read by `new Date()`
  \* App
  location,       \* the path of the current URL
  isAuthenticated, authLoading,  \* useAuth().isAuthenticated and .loading
  \* AlertProvider
  alerts,         \* the alerts displayed, each with the time since it was shown
                  \* and the time left on the timer of its Alert, in ms
  alertCount      \* how many alerts showAlert has been given

appVars == <<location, isAuthenticated, authLoading>>
alertVars == <<alerts, alertCount>>
repVars == <<repLoading, historyData, overallSummary, reportPeriod, repError,
             repFetch, repHist, repSum, now>>

dashVars == <<dashLoading, balance, recentTransactions, newBalance, updating,
              dashFetch, dashTx, dashBal, updateResponse>>
histVars == <<histLoading, transactions, isRefreshing, histFetch, histRefresh,
              histReqs, histIssued, histWriter, histLog, timeFrame>>

regVars == <<regPassword, regConfirmPassword, regError, regIsLoading, regPhase>>
loginVars == <<loginError, loginIsLoading, loginPhase>>
sendVars == <<receiverPhone, phoneTouched, amount, amountTouched, sendLoading,
              userInfo, infoReq, sendPhase, sendNav, submitLog>>
vars == <<page, user, event, failedUrls, lastAuth, issued, shown, sendVars, regVars,
          loginVars, dashVars, histVars, repVars, appVars, alertVars>>

\* bookkeeping of every step: a mount or user action starts afresh, a failed
\* request adds its URL
Track ==
  failedUrls' = IF event'.kind \in UserEvents THEN {}
                ELSE IF event'.failed THEN failedUrls \cup {event'.url}
                ELSE failedUrls

\* what a step of one page leaves alone: the state of the other pages
SendFrame ==
  Track /\ UNCHANGED <<lastAuth, regVars, loginVars, dashVars, histVars, repVars, appVars,
                      alertVars>>
RegFrame ==
  Track /\ UNCHANGED <<sendVars, loginVars, dashVars, histVars, repVars, appVars, alertVars>>
LoginFrame ==
  Track /\ UNCHANGED <<sendVars, regVars, dashVars, histVars, repVars, appVars, alertVars>>
DashFrame ==
  Track /\ UNCHANGED <<lastAuth, sendVars, regVars, loginVars, histVars, repVars, appVars,
                      alertVars>>
HistFrame ==
  Track /\ UNCHANGED <<lastAuth, sendVars, regVars, loginVars, dashVars, repVars, appVars,
                      alertVars>>
RepFrame ==
  Track /\ UNCHANGED <<lastAuth, sendVars, regVars, loginVars, dashVars, histVars,
                      appVars, alertVars>>
AppFrame ==
  Track /\ UNCHANGED <<lastAuth, sendVars, regVars, loginVars, dashVars, histVars,
                      repVars, alertVars>>
AlertFrame ==
  Track /\ UNCHANGED <<lastAuth, sendVars, regVars, loginVars, dashVars, histVars,
                      repVars, appVars>>

\* ========================================================================
\* SendMoney page
\* ========================================================================
Fives(n) == [i \in 1..n |-> "5"]

\* texts the user types into the phone field
PhoneInputs ==
  { <<>>, <<"+">>, <<"1", "2">>, <<"+", "1">>, <<"+", "1", "2">>,
    <<"+", "0", "1">>, <<"+", "1", "a">>, <<"a", "+", "1", "2">> }
  \cup { <<"+", "1">> \o Fives(n) : n \in MinTail..MaxTail }

\* texts the user types into the amount field
AmountInputs ==
  { <<>>, <<".">>, <<"0">>, <<"0", ".", "0", "0">>, <<"0", ".", "0", "1">>,
    <<"1", ".", "5">>, <<"2">>, <<"-", "1">>, <<"1", ".", "2", "3", "4">>,
    <<"1", "e", "2">> }

\* balances (in hundredths) the user service reports
Balances == {-1, 0, 150}

NoUserInfo == [present |-> FALSE, balance |-> 0]

SubmitLog(transfer, types) == [transfer |-> transfer, alerts |-> types]
UserInfo(b) == [present |-> TRUE, balance |-> b]

\* variant of validatePhone: the quantifier is {1,15}, one digit too many
validatePhone_fifteen(phone) ==
  /\ Len(phone) >= 1 /\ phone[1] = "+"
  /\ Len(phone) >= 2 /\ phone[2] \in Digits \ {"0"}
  /\ DigitRun(phone, 3) >= 1
  /\ DigitRun(phone, 3) <= 15
  /\ 2 + DigitRun(phone, 3) = Len(phone)

\* /^\+[1-9]\d{1,14}$/.test(phone), matched left to right
validatePhone(phone) ==
  /\ Len(phone) >= 1 /\ phone[1] = "+"
  /\ Len(phone) >= 2 /\ phone[2] \in Digits \ {"0"}
  /\ DigitRun(phone, 3) >= 1
  /\ DigitRun(phone, 3) <= 14
  /\ 2 + DigitRun(phone, 3) = Len(phone)

\* userInfo?.balance ?? 0
maxAmount(info) == IF info.present THEN info.balance ELSE 0

\* variant of validateAmount: the comparison with maxAmount is missing
validateAmount_unbounded(value, info) ==
  LET numValue == parseFloat(value)
  IN  ~isNaN(numValue) /\ GeCents(numValue, 1)

validateAmount(value, info) ==
  LET numValue == parseFloat(value)
  IN  ~isNaN(numValue) /\ GeCents(numValue, 1) /\ LeCents(numValue, maxAmount(info))

isPhoneValid == validatePhone(receiverPhone)
isAmountValid == validateAmount(amount, userInfo)

getPhoneErrorMessage ==
  IF receiverPhone = <<>> THEN "Phone number is required"
  ELSE IF ~isPhoneValid
    THEN "Please enter a valid international phone number (e.g., +1234567890)"
  ELSE ""

getAmountErrorMessage ==
  LET numAmount == parseFloat(amount)
  IN  IF amount = <<>> THEN "Amount is required"
      ELSE IF isNaN(numAmount) THEN "Please enter a valid number"
      ELSE IF LtCents(numAmount, 1) THEN "Amount must be at least $0.01"
      ELSE IF GtCents(numAmount, maxAmount(userInfo)) THEN "Insufficient balance"
      ELSE ""

\* variant of validateForm: only the phone is validated
validateForm_phoneOnly ==
  IF receiverPhone = <<>> \/ ~isPhoneValid THEN Alert("error", getPhoneErrorMessage)
  ELSE Nothing

\* validateForm: the alert it shows, Nothing when the form is valid
validateForm ==
  IF receiverPhone = <<>> \/ ~isPhoneValid THEN Alert("error", getPhoneErrorMessage)
  ELSE IF amount = <<>> \/ ~isAmountValid THEN Alert("error", getAmountErrorMessage)
  ELSE Nothing

\* variant of sendSubmitDisabled: loading does not disable the button
sendSubmitDisabled_ignoresLoading ==
  (~isPhoneValid /\ phoneTouched) \/ (~isAmountValid /\ amountTouched)

\* the submit button's disabled attribute
sendSubmitDisabled ==
  sendLoading \/ (~isPhoneValid /\ phoneTouched) \/ (~isAmountValid /\ amountTouched)

\* /^\d*\.?\d{0,2}$/.test(value)
amountPattern(value) ==
  LET n == DigitRun(value, 1)
  IN  \/ n = Len(value)
      \/ /\ value[n + 1] = "."
         /\ DigitRun(value, n + 2) = Len(value) - n - 1
         /\ Len(value) - n - 1 <= 2

sendMounted == page = "send" /\ sendNav # "dashboard"

\* useEffect: fetchUserInfo
SendMoneyMount ==
  /\ sendMounted /\ infoReq = "init"
  /\ IF UserId(user) # ""
       THEN infoReq' = "pending" /\ issued' = <<getUserInfoCall(UserId(user))>>
       ELSE infoReq' = "skipped" /\ issued' = <<>>
  /\ event' = Ev("mount") /\ shown' = Nothing
  /\ UNCHANGED <<page, user, submitLog, receiverPhone, phoneTouched, amount, amountTouched,
                 sendLoading, userInfo, sendPhase, sendNav>>

FetchUserInfoOk(b) ==
  /\ sendMounted /\ infoReq = "pending"
  /\ userInfo' = UserInfo(b)
  /\ infoReq' = "settled"
  /\ event' = Ev("success") /\ issued' = <<>> /\ shown' = Nothing
  /\ UNCHANGED <<page, user, submitLog, receiverPhone, phoneTouched, amount, amountTouched,
                 sendLoading, sendPhase, sendNav>>

FetchUserInfoFail ==
  /\ sendMounted /\ infoReq = "pending"
  /\ infoReq' = "settled"
  /\ shown' = Alert("error", "Failed to fetch user information")
  /\ event' = Failure(getUserInfoCall(UserId(user)).url) /\ issued' = <<>>
  /\ UNCHANGED <<page, user, submitLog, receiverPhone, phoneTouched, amount, amountTouched,
                 sendLoading, userInfo, sendPhase, sendNav>>

\* onChange of the phone input (disabled while loading)
SetReceiverPhone(value) ==
  /\ sendMounted /\ ~sendLoading
  /\ receiverPhone' = value
  /\ event' = Ev("edit") /\ issued' = <<>> /\ shown' = Nothing
  /\ UNCHANGED <<page, user, submitLog, phoneTouched, amount, amountTouched, sendLoading,
                 userInfo, infoReq, sendPhase, sendNav>>

PhoneBlur ==
  /\ sendMounted /\ ~sendLoading
  /\ phoneTouched' = TRUE
  /\ event' = Ev("edit") /\ issued' = <<>> /\ shown' = Nothing
  /\ UNCHANGED <<page, user, submitLog, receiverPhone, amount, amountTouched, sendLoading,
                 userInfo, infoReq, sendPhase, sendNav>>

handleAmountChange(value) ==
  /\ sendMounted /\ ~sendLoading
  /\ amount' = IF value = <<>> \/ amountPattern(value) THEN value ELSE amount
  /\ event' = Ev("edit") /\ issued' = <<>> /\ shown' = Nothing
  /\ UNCHANGED <<page, user, submitLog, receiverPhone, phoneTouched, amountTouched, sendLoading,
                 userInfo, infoReq, sendPhase, sendNav>>

AmountBlur ==
  /\ sendMounted /\ ~sendLoading
  /\ amountTouched' = TRUE
  /\ event' = Ev("edit") /\ issued' = <<>> /\ shown' = Nothing
  /\ UNCHANGED <<page, user, submitLog, receiverPhone, phoneTouched, amount, sendLoading,
                 userInfo, infoReq, sendPhase, sendNav>>

\* handleSubmit up to its first await; the form is submitted through the
\* submit button, which must be enabled
SendHandleSubmit ==
  /\ sendMounted /\ ~sendSubmitDisabled
  /\ phoneTouched' = TRUE /\ amountTouched' = TRUE
  /\ event' = Ev("submit")
  /\ IF validateForm # Nothing
       THEN /\ shown' = validateForm /\ issued' = <<>>
            /\ UNCHANGED <<sendLoading, sendPhase>>
       ELSE IF UserId(user) = ""
       THEN /\ shown' = Nothing /\ issued' = <<>>
            /\ UNCHANGED <<sendLoading, sendPhase>>
       ELSE /\ sendLoading' = TRUE
            /\ sendPhase' = "sendMoney"
            /\ issued' = <<sendMoneyCall(UserId(user), receiverPhone, parseFloat(amount))>>
            /\ shown' = Nothing
  /\ UNCHANGED <<page, user, receiverPhone, amount, userInfo, infoReq, sendNav>>
  /\ submitLog' = IF validateForm # Nothing THEN SubmitLog("none", <<"error">>)
                  ELSE IF UserId(user) = "" THEN SubmitLog("none", <<>>)
                  ELSE SubmitLog("pending", <<>>)

\* handleSubmit after `await sendMoney(...)` resolved
SendMoneyOk ==
  /\ sendMounted /\ sendPhase = "sendMoney"
  /\ shown' = Alert("success", "Money sent successfully!")
  /\ receiverPhone' = <<>> /\ amount' = <<>>
  /\ phoneTouched' = FALSE /\ amountTouched' = FALSE
  /\ sendPhase' = "getUserInfo"
  /\ issued' = <<getUserInfoCall(UserId(user))>>
  /\ event' = Ev("success")
  /\ UNCHANGED <<page, user, sendLoading, userInfo, infoReq, sendNav>>
  /\ submitLog' = SubmitLog("ok", Append(submitLog.alerts, "success"))

\* handleSubmit's catch and finally after `await sendMoney(...)` rejected
SendMoneyFail(message) ==
  /\ sendMounted /\ sendPhase = "sendMoney"
  /\ shown' = Alert("error", message)
  /\ sendLoading' = FALSE
  /\ sendPhase' = "idle"
  /\ event' = Failure(sendMoneyCall(UserId(user), receiverPhone, parseFloat(amount)).url)
  /\ issued' = <<>>
  /\ UNCHANGED <<page, user, receiverPhone, phoneTouched, amount, amountTouched,
                 userInfo, infoReq, sendNav>>
  /\ submitLog' = SubmitLog("fail", Append(submitLog.alerts, "error"))

\* handleSubmit after the follow-up `await getUserInfo(...)` resolved
SendRefetchOk(b) ==
  /\ sendMounted /\ sendPhase = "getUserInfo"
  /\ userInfo' = UserInfo(b)
  /\ sendNav' = "timer"
  /\ sendLoading' = FALSE
  /\ sendPhase' = "idle"
  /\ event' = Ev("success") /\ issued' = <<>> /\ shown' = Nothing
  /\ UNCHANGED <<page, user, submitLog, receiverPhone, phoneTouched, amount, amountTouched,
                 infoReq>>

\* handleSubmit's catch and finally after the follow-up getUserInfo rejected
SendRefetchFail(message) ==
  /\ sendMounted /\ sendPhase = "getUserInfo"
  /\ shown' = Alert("error", message)
  /\ sendLoading' = FALSE
  /\ sendPhase' = "idle"
  /\ event' = Failure(getUserInfoCall(UserId(user)).url) /\ issued' = <<>>
  /\ UNCHANGED <<page, user, receiverPhone, phoneTouched, amount, amountTouched,
                 userInfo, infoReq, sendNav>>
  /\ submitLog' = SubmitLog(submitLog.transfer, Append(submitLog.alerts, "error"))

\* the setTimeout callback: navigate('/dashboard') unmounts the page
SendNavigate ==
  /\ page = "send" /\ sendNav = "timer"
  /\ sendNav' = "dashboard"
  /\ event' = Ev("timer") /\ issued' = <<>> /\ shown' = Nothing
  /\ UNCHANGED <<page, user, submitLog, receiverPhone, phoneTouched, amount, amountTouched,
                 sendLoading, userInfo, infoReq, sendPhase>>

SendNext ==
  \/ SendMoneyMount /\ SendFrame
  \/ \E b \in Balances : FetchUserInfoOk(b) /\ SendFrame
  \/ FetchUserInfoFail /\ SendFrame
  \/ \E v \in PhoneInputs : SetReceiverPhone(v) /\ SendFrame
  \/ PhoneBlur /\ SendFrame
  \/ \E v \in AmountInputs : handleAmountChange(v) /\ SendFrame
  \/ AmountBlur /\ SendFrame
  \/ SendHandleSubmit /\ SendFrame
  \/ SendMoneyOk /\ SendFrame
  \/ \E m \in TransportErrors : SendMoneyFail(m) /\ SendFrame
  \/ \E b \in Balances : SendRefetchOk(b) /\ SendFrame
  \/ \E m \in TransportErrors : SendRefetchFail(m) /\ SendFrame
  \/ SendNavigate /\ SendFrame

SendInit ==
  /\ receiverPhone = <<>> /\ phoneTouched = FALSE
  /\ amount = <<>> /\ amountTouched = FALSE
  /\ sendLoading = FALSE /\ userInfo = NoUserInfo
  /\ infoReq = "init" /\ sendPhase = "idle" /\ sendNav = "none"
  /\ submitLog = SubmitLog("none", <<>>)

\* ========================================================================
\* authService: loginUser and registerUser
\* ========================================================================
NAMEIDENTIFIER == "http://schemas.xmlsoap.org/ws/2005/05/identity/claims/nameidentifier"
NAME == "http://schemas.xmlsoap.org/ws/2005/05/identity/claims/name"

\* the claims of JwtPayload that the client never reads (exp as "past" or
\* "future") and whether the signature part is the issuer's
Unread(exp, iss, aud, signed) == [exp |-> exp, iss |-> iss, aud |-> aud, signed |-> signed]
Genuine == Unread("future", "instabay", "instabay", TRUE)

\* a bearer token: decodable says whether its payload part is base64url JSON
Token(decodable, id, name, unread) ==
  [present |-> TRUE, decodable |-> decodable, nameidentifier |-> id, name |-> name,
   unread |-> unread]
\* response.data.data.token of a body without data or without token
NoToken == [present |-> FALSE, decodable |-> FALSE, nameidentifier |-> "", name |-> "",
            unread |-> Genuine]

\* tokens the user service answers with: genuine ones of two users, an
\* expired one, one of another issuer and audience, one with a forged
\* signature, and one that is not a JWT
Tokens ==
  { Token(TRUE, "u1", "Ann", Genuine),
    Token(TRUE, "u2", "Bob", Genuine),
    Token(TRUE, "u1", "Ann", Unread("past", "instabay", "instabay", TRUE)),
    Token(TRUE, "u1", "Ann", Unread("future", "other", "other", TRUE)),
    Token(TRUE, "u2", "Bob", Unread("future", "instabay", "instabay", FALSE)),
    Token(FALSE, "", "", Genuine) }

\* what axios.post settles with: fulfilled by a 2xx response, rejected with an
\* AxiosError that carries the non-2xx response, or rejected without response.
\* message is response.data.message, "" when the body has none.
Fulfilled(message, token) ==
  [kind |-> "fulfilled", message |-> message, token |-> token]
HttpError(message) == [kind |-> "httpError", message |-> message, token |-> NoToken]
NoResponse == [kind |-> "noResponse", message |-> "", token |-> NoToken]

AuthOutcomes ==
  { Fulfilled(m, t) : m \in {"", "OK"},
                      t \in Tokens \cup {NoToken} }
  \cup { HttpError(m) : m \in {"", "Invalid email or password"} }
  \cup { NoResponse }

Resolved(token, id, name, email) ==
  [status |-> "resolved", message |-> "", token |-> token,
   user |-> [id |-> id, name |-> name, email |-> email]]
Rejected(message) ==
  [status |-> "rejected", message |-> message, token |-> NoToken,
   user |-> [id |-> "", name |-> "", email |-> ""]]

\* variant of authCatch: the server's message is ignored
authCatch_fallbackOnly(outcome, fallback) ==
  IF outcome.kind = "httpError"
    THEN Rejected(fallback)
    ELSE Rejected("Network error, please try again later")

\* error.response.data.message ?? fallback, in the catch block
authCatch(outcome, fallback) ==
  IF outcome.kind = "httpError"
    THEN Rejected(IF outcome.message # "" THEN outcome.message ELSE fallback)
    ELSE Rejected("Network error, please try again later")

\* variant of authTry: a token that is expired, of another issuer or audience,
\* or not signed by the issuer is refused
authTry_verified(outcome, email, fallback) ==
  IF /\ outcome.kind = "fulfilled" /\ outcome.token.present /\ outcome.token.decodable
     /\ outcome.token.unread = Genuine
    THEN Resolved(outcome.token, outcome.token.nameidentifier, outcome.token.name, email)
    ELSE authCatch(outcome, fallback)

\* the try block: read response.data.data.token, jwtDecode it, build the user;
\* reading a missing token or decoding a malformed one throws into the catch
authTry(outcome, email, fallback) ==
  IF outcome.kind = "fulfilled" /\ outcome.token.present /\ outcome.token.decodable
    THEN Resolved(outcome.token, outcome.token.nameidentifier, outcome.token.name, email)
    ELSE authCatch(outcome, fallback)

loginUser(email, password, outcome) == authTry(outcome, email, "Login failed")
registerUser(name, email, password, phoneNumber, outcome) ==
  authTry(outcome, email, "Registration failed")

\* AuthContext.login / register: hand the service's result to the page
login(email, password, outcome) == loginUser(email, password, outcome)
register(name, email, password, phoneNumber, outcome) ==
  registerUser(name, email, password, phoneNumber, outcome)

\* reportingService.getUserIdFromToken on the token kept in localStorage: the
\* nameidentifier claim, null ("") without a token or when decoding throws
getUserIdFromToken(token) ==
  IF ~token.present THEN ""
  ELSE IF token.decodable THEN token.nameidentifier
  ELSE ""

\* no authService call has settled yet
NoAuth == [fn |-> "none", outcome |-> NoResponse, result |-> Rejected("")]

\* ========================================================================
\* Register page
\* ========================================================================
UpperCase == {"A", "B", "C", "D", "E", "F", "G", "H", "I", "J", "K", "L", "M",
              "N", "O", "P", "Q", "R", "S", "T", "U", "V", "W", "X", "Y", "Z"}
LowerCase == {"a", "b", "c", "d", "e", "f", "g", "h", "i", "j", "k", "l", "m",
              "n", "o", "p", "q", "r", "s", "t", "u", "v", "w", "x", "y", "z"}

Some(s, class) == \E i \in 1..Len(s) : s[i] \in class
SomeNot(s, class) == \E i \in 1..Len(s) : s[i] \notin class

\* variant of passwordRules: the special-character rule is always met
passwordRules_noSpecial(password) ==
  [minLength |-> Len(password) >= 8,
   hasUppercase |-> Some(password, UpperCase),
   hasLowercase |-> Some(password, LowerCase),
   hasNumber |-> Some(password, Digits),
   hasSpecialChar |-> TRUE]

passwordRules(password) ==
  [minLength |-> Len(password) >= 8,
   hasUppercase |-> Some(password, UpperCase),
   hasLowercase |-> Some(password, LowerCase),
   hasNumber |-> Some(password, Digits),
   hasSpecialChar |-> SomeNot(password, UpperCase \cup LowerCase \cup Digits)]

isPasswordValid(password) ==
  \A rule \in DOMAIN passwordRules(password) : passwordRules(password)[rule]

\* the text of length n that repeats the characters of pattern
Cycle(pattern, n) == [i \in 1..n |-> pattern[((i - 1) % Len(pattern)) + 1]]

\* passwords the user types: every pattern cut just below, at and above the
\* minimum length, and the empty text
PasswordInputs ==
  { Cycle(p, n) : p \in { <<"A", "a", "1", "!">>, <<"a", "1", "!">>, <<"A", "1", "!">>,
                          <<"A", "a", "!">>, <<"A", "a", "1">>, <<"B", "b", "2", " ">> },
                  n \in {0} \cup 7..MaxPwLen }

regName == "Ann"
regEmail == "ann@example.com"
regPhoneNumber == "+12"

regSubmitDisabled ==
  regIsLoading \/ ~isPasswordValid(regPassword) \/ regPassword # regConfirmPassword

regMounted == page = "register" /\ regPhase # "left"

setPassword(value) ==
  /\ regMounted
  /\ regPassword' = value
  /\ event' = Ev("edit") /\ issued' = <<>> /\ shown' = Nothing
  /\ UNCHANGED <<page, user, lastAuth, regConfirmPassword, regError, regIsLoading, regPhase>>

setConfirmPassword(value) ==
  /\ regMounted
  /\ regConfirmPassword' = value
  /\ event' = Ev("edit") /\ issued' = <<>> /\ shown' = Nothing
  /\ UNCHANGED <<page, user, lastAuth, regPassword, regError, regIsLoading, regPhase>>

\* handleSubmit up to its await; submitted through the enabled submit button
RegisterHandleSubmit ==
  /\ regMounted /\ ~regSubmitDisabled
  /\ event' = Ev("submit")
  /\ IF regPassword # regConfirmPassword
       THEN /\ regError' = "Passwords do not match"
            /\ shown' = Inline("Passwords do not match")
            /\ issued' = <<>>
            /\ UNCHANGED <<regIsLoading, regPhase>>
       ELSE IF ~isPasswordValid(regPassword)
       THEN /\ regError' = "Please meet all password requirements"
            /\ shown' = Inline("Please meet all password requirements")
            /\ issued' = <<>>
            /\ UNCHANGED <<regIsLoading, regPhase>>
       ELSE /\ regError' = ""
            /\ regIsLoading' = TRUE
            /\ regPhase' = "register"
            /\ issued' = <<registerUserCall(regName, regEmail, regPassword, regPhoneNumber)>>
            /\ shown' = Nothing
  /\ UNCHANGED <<page, user, lastAuth, regPassword, regConfirmPassword>>

\* handleSubmit after `await register(...)` settled
RegisterSettle(outcome) ==
  /\ regMounted /\ regPhase = "register"
  /\ LET result == register(regName, regEmail, regPassword, regPhoneNumber, outcome)
     IN  IF result.status = "resolved"
           THEN /\ regPhase' = "left"
                /\ event' = Ev("success") /\ shown' = Nothing
                /\ UNCHANGED regError
           ELSE /\ regPhase' = "idle"
                /\ regError' = result.message
                /\ event' = Failure(registerUserCall(regName, regEmail, regPassword,
                                                     regPhoneNumber).url)
                /\ shown' = IF result.message # "" THEN Inline(result.message) ELSE Nothing
  /\ regIsLoading' = FALSE
  /\ issued' = <<>>
  /\ lastAuth' = [fn |-> "registerUser", outcome |-> outcome,
                  result |-> registerUser(regName, regEmail, regPassword, regPhoneNumber,
                                          outcome)]
  /\ UNCHANGED <<page, user, regPassword, regConfirmPassword>>

RegNext ==
  \/ \E v \in PasswordInputs : setPassword(v) /\ RegFrame
  \/ \E v \in PasswordInputs : setConfirmPassword(v) /\ RegFrame
  \/ RegisterHandleSubmit /\ RegFrame
  \/ \E o \in AuthOutcomes : RegisterSettle(o) /\ RegFrame

RegInit ==
  /\ regPassword = <<>> /\ regConfirmPassword = <<>>
  /\ regError = "" /\ regIsLoading = FALSE /\ regPhase = "idle"

\* ========================================================================
\* Login page
\* ========================================================================
loginEmail == "ann@example.com"
loginPassword == "secret"

loginMounted == page = "login" /\ loginPhase # "left"

LoginHandleSubmit ==
  /\ loginMounted /\ ~loginIsLoading
  /\ loginError' = ""
  /\ loginIsLoading' = TRUE
  /\ loginPhase' = "login"
  /\ issued' = <<loginUserCall(loginEmail, loginPassword)>>
  /\ event' = Ev("submit") /\ shown' = Nothing
  /\ UNCHANGED <<page, user, lastAuth>>

LoginSettle(outcome) ==
  /\ loginMounted /\ loginPhase = "login"
  /\ LET result == login(loginEmail, loginPassword, outcome)
     IN  IF result.status = "resolved"
           THEN /\ loginPhase' = "left"
                /\ event' = Ev("success") /\ shown' = Nothing
                /\ UNCHANGED loginError
           ELSE /\ loginPhase' = "idle"
                /\ loginError' = result.message
                /\ event' = Failure(loginUserCall(loginEmail, loginPassword).url)
                /\ shown' = IF result.message # "" THEN Inline(result.message) ELSE Nothing
  /\ loginIsLoading' = FALSE
  /\ issued' = <<>>
  /\ lastAuth' = [fn |-> "loginUser", outcome |-> outcome,
                  result |-> loginUser(loginEmail, loginPassword, outcome)]
  /\ UNCHANGED <<page, user>>

LoginNext ==
  \/ LoginHandleSubmit /\ LoginFrame
  \/ \E o \in AuthOutcomes : LoginSettle(o) /\ LoginFrame

LoginInit ==
  /\ loginError = "" /\ loginIsLoading = FALSE /\ loginPhase = "idle"

\* ========================================================================
\* Dashboard page
\* ========================================================================
\* a request that is part of a Promise.all: not issued, pending, ok or fail
NotIssued == [status |-> "none", data |-> <<>>]
Pending == [status |-> "pending", data |-> <<>>]
Ok(data) == [status |-> "ok", data |-> data]
Failed == [status |-> "fail", data |-> <<>>]

\* transaction lists the transaction service returns, as lists of ids
TxLists == { [i \in 1..n |-> i] : n \in {0, 2, MaxTx} }

\* values of the add-funds input (type="number": "" or a decimal number)
NumberInputs ==
  { <<>>, <<"0">>, <<"0", ".", "0", "0">>, <<"5">>, <<"-", "5">>, <<"2", ".", "5">> }

\* array.slice(0, n)
slice0(array, n) == SubSeq(array, 1, IF Len(array) < n THEN Len(array) ELSE n)

\* variant of allFulfilled: one fulfilled request is enough (Promise.any)
allFulfilled_either(r1, r2) == r1.status = "ok" \/ r2.status = "ok"

\* Promise.all over two requests settles when both are ok or one has failed
allFulfilled(r1, r2) == r1.status = "ok" /\ r2.status = "ok"
allRejected(r1, r2) == r1.status = "fail" \/ r2.status = "fail"

dashMounted == page = "dashboard"

\* the skeleton replaces the page while loading with nothing to show
dashSkeleton == dashLoading /\ Len(recentTransactions) = 0

\* useEffect: fetchDashboardData up to its await
DashboardMount ==
  /\ dashMounted /\ dashFetch = "init"
  /\ event' = Ev("mount") /\ shown' = Nothing
  /\ IF UserId(user) = ""
       THEN /\ dashFetch' = "skipped" /\ issued' = <<>>
            /\ UNCHANGED <<dashLoading, dashTx, dashBal>>
       ELSE /\ dashLoading' = TRUE
            /\ dashFetch' = "running"
            /\ dashTx' = Pending /\ dashBal' = Pending
            /\ issued' = <<getTransactionsCall(UserId(user)), getBalanceCall(UserId(user))>>
  /\ UNCHANGED <<page, user, updateResponse, balance, recentTransactions, newBalance, updating>>

\* fetchDashboardData after `await Promise.all([...])`, given the two requests
\* as they stand once the response `arrived` has come in from url
fetchDashboardDataContinue(tx, bal, arrived, url) ==
  IF dashFetch = "running" /\ allFulfilled(tx, bal)
    THEN /\ balance' = bal.data
         /\ recentTransactions' = slice0(tx.data, 5)
         /\ dashLoading' = FALSE /\ dashFetch' = "settled"
         /\ event' = Ev("success") /\ shown' = Nothing
  ELSE IF dashFetch = "running" /\ allRejected(tx, bal)
    THEN /\ shown' = Alert("error", "Failed to load dashboard data")
         /\ dashLoading' = FALSE /\ dashFetch' = "settled"
         /\ event' = Failure(url)
         /\ UNCHANGED <<balance, recentTransactions>>
  ELSE /\ event' = Late(url, arrived.status = "fail") /\ shown' = Nothing
       /\ UNCHANGED <<balance, recentTransactions, dashLoading, dashFetch>>

DashTransactionsResponse(response) ==
  /\ dashMounted /\ dashTx.status = "pending"
  /\ dashTx' = response
  /\ fetchDashboardDataContinue(response, dashBal, response,
                                getTransactionsCall(UserId(user)).url)
  /\ issued' = <<>>
  /\ UNCHANGED <<page, user, updateResponse, newBalance, updating, dashBal>>

DashBalanceResponse(response) ==
  /\ dashMounted /\ dashBal.status = "pending"
  /\ dashBal' = response
  /\ fetchDashboardDataContinue(dashTx, response, response,
                                getBalanceCall(UserId(user)).url)
  /\ issued' = <<>>
  /\ UNCHANGED <<page, user, updateResponse, newBalance, updating, dashTx>>

\* onChange of the add-funds input (disabled while updating)
setNewBalance(value) ==
  /\ dashMounted /\ ~dashSkeleton /\ ~updating
  /\ newBalance' = value
  /\ event' = Ev("edit") /\ issued' = <<>> /\ shown' = Nothing
  /\ UNCHANGED <<page, user, updateResponse, dashLoading, balance, recentTransactions, updating,
                 dashFetch, dashTx, dashBal>>

\* the Add Funds button's disabled attribute
addFundsDisabled ==
  \/ updating
  \/ newBalance = <<>>
  \/ (~isNaN(parseFloat(newBalance)) /\ LeCents(parseFloat(newBalance), 0))

\* handleUpdateBalance up to its await; submitted through the enabled button
handleUpdateBalance ==
  /\ dashMounted /\ ~dashSkeleton /\ ~addFundsDisabled
  /\ event' = Ev("submit")
  /\ LET amt == parseFloat(newBalance)
     IN  IF UserId(user) = "" \/ newBalance = <<>> \/ updating
           THEN shown' = Nothing /\ issued' = <<>> /\ UNCHANGED updating
         ELSE IF isNaN(amt) \/ LeCents(amt, 0)
           THEN /\ shown' = Alert("error", "Please enter a valid amount")
                /\ issued' = <<>> /\ UNCHANGED updating
         ELSE /\ updating' = TRUE
              /\ issued' = <<updateBalanceCall(UserId(user), amt)>>
              /\ shown' = Nothing
  /\ UNCHANGED <<page, user, dashLoading, balance, recentTransactions, newBalance,
                 dashFetch, dashTx, dashBal>>
  /\ updateResponse' = NotIssued

\* handleUpdateBalance after `await updateBalance(...)` resolved
UpdateBalanceOk(newbalance) ==
  /\ dashMounted /\ updating
  /\ balance' = newbalance
  /\ shown' = Alert("success", "Balance updated successfully")
  /\ newBalance' = <<>>
  /\ updating' = FALSE
  /\ event' = Ev("success") /\ issued' = <<>>
  /\ UNCHANGED <<page, user, dashLoading, recentTransactions, dashFetch, dashTx, dashBal>>
  /\ updateResponse' = Ok(newbalance)

\* variant of UpdateBalanceFail: the catch also clears the input
UpdateBalanceFail_clears ==
  /\ dashMounted /\ updating
  /\ shown' = Alert("error", "Failed to update balance")
  /\ newBalance' = <<>>
  /\ updating' = FALSE
  /\ event' = Failure(updateBalanceCall(UserId(user), parseFloat(newBalance)).url)
  /\ issued' = <<>>
  /\ updateResponse' = Failed
  /\ UNCHANGED <<page, user, dashLoading, balance, recentTransactions, dashFetch, dashTx,
                 dashBal>>

\* handleUpdateBalance's catch and finally
UpdateBalanceFail ==
  /\ dashMounted /\ updating
  /\ shown' = Alert("error", "Failed to update balance")
  /\ updating' = FALSE
  /\ event' = Failure(updateBalanceCall(UserId(user), parseFloat(newBalance)).url)
  /\ issued' = <<>>
  /\ UNCHANGED <<page, user, dashLoading, balance, recentTransactions, newBalance,
                 dashFetch, dashTx, dashBal>>
  /\ updateResponse' = Failed

DashNext ==
  \/ DashboardMount /\ DashFrame
  \/ \E l \in TxLists : DashTransactionsResponse(Ok(l)) /\ DashFrame
  \/ DashTransactionsResponse(Failed) /\ DashFrame
  \/ \E b \in Balances : DashBalanceResponse(Ok(b)) /\ DashFrame
  \/ DashBalanceResponse(Failed) /\ DashFrame
  \/ \E v \in NumberInputs : setNewBalance(v) /\ DashFrame
  \/ handleUpdateBalance /\ DashFrame
  \/ \E b \in Balances : UpdateBalanceOk(b) /\ DashFrame
  \/ UpdateBalanceFail /\ DashFrame

DashInit ==
  /\ dashLoading = TRUE /\ balance = 0 /\ recentTransactions = <<>>
  /\ newBalance = <<>> /\ updating = FALSE
  /\ dashFetch = "init" /\ dashTx = NotIssued /\ dashBal = NotIssued
  /\ updateResponse = NotIssued

\* ========================================================================
\* Dates
\* ========================================================================
\* a local date and time; month is 0-based as in Date
DateTime(year, month, day, tick) ==
  [year |-> year, month |-> month, day |-> day, tick |-> tick]

isLeapYear(y) == (y % 4 = 0 /\ y % 100 # 0) \/ y % 400 = 0

daysInMonth(y, m) ==
  IF m = 1 THEN (IF isLeapYear(y) THEN 29 ELSE 28)
  ELSE IF m \in {3, 5, 8, 10} THEN 30
  ELSE 31

\* days from 1 January of year 1 to 1 January of year y (Gregorian calendar)
daysBeforeYear(y) ==
  365 * (y - 1) + ((y - 1) \div 4) - ((y - 1) \div 100) + ((y - 1) \div 400)

RECURSIVE daysBeforeMonth(_, _)
daysBeforeMonth(y, m) ==
  IF m = 0 THEN 0 ELSE daysBeforeMonth(y, m - 1) + daysInMonth(y, m - 1)

\* the day number of new Date(y, m, d): a month outside 0..11 carries into
\* the year and a day past the end of the month carries into the next month
dayNumber(y, m, d) ==
  LET yy == y + (m \div 12)
      mm == m % 12
  IN  daysBeforeYear(yy) + daysBeforeMonth(yy, mm) + d - 1

\* Date.getTime(), in ticks
getTime(date) == dayNumber(date.year, date.month, date.day) * TicksPerDay + date.tick
getFullYear(date) == date.year
getMonth(date) == date.month
\* Date.getDay(): 0 is Sunday; day number 0 (1 January of year 1) is a Monday
getDay(date) == (dayNumber(date.year, date.month, date.day) + 1) % 7
\* Date.toDateString(), as far as equality goes
toDateString(date) == <<date.year, date.month, date.day>>

\* ========================================================================
\* TransactionHistory page
\* ========================================================================
histMounted == page = "history"

\* a getTransactions request of the page: the n-th it issued, by the effect
\* or by handleRefresh, for the user of that time
HistRequest(n, by, userId) == [n |-> n, by |-> by, userId |-> userId]

Logged(by, userId, status) == [by |-> by, userId |-> userId, status |-> status]
settle(log, req, status) == [log EXCEPT ![req.n].status = status]

\* a transaction of the transaction service
HistTransaction(id, createdAt) ==
  [id |-> id, senedrId |-> "u1", receiverId |-> "u2", amount |-> 5,
   createdAt |-> createdAt, type |-> "Send"]

\* what getTransactions returns: nothing, or transactions of the last days
\* of April 2025 (Saturday 26 evening, Sunday 27 morning and evening,
\* Wednesday 30 morning)
HistTxLists ==
  { <<>>,
    <<HistTransaction(1, DateTime(2025, 3, 27, 0)), HistTransaction(2, DateTime(2025, 3, 30, 0))>>,
    <<HistTransaction(1, DateTime(2025, 3, 26, 1)), HistTransaction(2, DateTime(2025, 3, 27, 0)),
      HistTransaction(3, DateTime(2025, 3, 27, 1)), HistTransaction(4, DateTime(2025, 3, 30, 0))>> }

\* the clock of the page: Sunday 27 April and Wednesday 30 April 2025,
\* in the morning and in the evening
HistNowChoices ==
  { DateTime(2025, 3, d, t) : d \in {27, 30}, t \in 0..(TicksPerDay - 1) }

TimeFrames == {"all", "today", "thisWeek", "thisMonth"}

\* variant of weekStart: the time of day is reset to midnight
weekStart_midnight(today) ==
  (dayNumber(today.year, today.month, today.day) - getDay(today)) * TicksPerDay

\* weekStart: a copy of today whose date is set back by getDay() days
weekStart(today) ==
  (dayNumber(today.year, today.month, today.day) - getDay(today)) * TicksPerDay + today.tick

\* the time-frame part of the filter of filteredTransactions
matchesTimeFrame(transaction, frame, today) ==
  LET transactionDate == transaction.createdAt
  IN  CASE frame = "today" -> toDateString(transactionDate) = toDateString(today)
        [] frame = "thisWeek" -> getTime(transactionDate) >= weekStart(today)
        [] frame = "thisMonth" ->
             /\ getMonth(transactionDate) = getMonth(today)
             /\ getFullYear(transactionDate) = getFullYear(today)
        [] OTHER -> TRUE

\* the list displayed, with an empty search and the type filter 'all'
filteredTransactions ==
  LET matches(transaction) == matchesTimeFrame(transaction, timeFrame, now)
  IN  SelectSeq(transactions, matches)

\* the values useAuth().user takes while the page is mounted
HistUsers == Users \cup {UserObject("u2")}

\* the requests of the effect that are in flight
effectRequests == { r \in histReqs : r.by = "effect" }
refreshRequests == { r \in histReqs : r.by = "refresh" }

\* fetchUserTransactions up to its await, run by the effect for user u
fetchUserTransactions(u) ==
  /\ event' = Ev("mount") /\ shown' = Nothing
  /\ IF u = UserUndefined
       THEN /\ histLoading' = TRUE /\ histFetch' = "skipped"
            /\ issued' = <<>>
            /\ UNCHANGED <<transactions, histReqs, histIssued, histWriter, histLog>>
     ELSE IF u = UserNull \/ UserId(u) = ""
       THEN /\ histLoading' = FALSE /\ transactions' = <<>> /\ histWriter' = 0
            /\ histFetch' = "skipped" /\ issued' = <<>>
            /\ UNCHANGED <<histReqs, histIssued, histLog>>
     ELSE /\ histLoading' = TRUE /\ histFetch' = "pending"
          /\ issued' = <<getTransactionsCall(UserId(u))>>
          /\ histIssued' = histIssued + 1
          /\ histReqs' = histReqs \cup {HistRequest(histIssued + 1, "effect", UserId(u))}
          /\ histLog' = Append(histLog, Logged("effect", UserId(u), "pending"))
          /\ UNCHANGED <<transactions, histWriter>>
  /\ UNCHANGED <<page, isRefreshing, histRefresh, timeFrame>>

\* useEffect on mount
TransactionHistoryMount ==
  /\ histMounted /\ histFetch = "init"
  /\ fetchUserTransactions(user)
  /\ UNCHANGED user

\* useEffect when useAuth() hands the page another user object, for another
\* user or for the same one
UserChange(u) ==
  /\ histMounted /\ histFetch # "init" /\ histIssued < MaxRequests
  /\ u # user \/ u.kind = "user"
  /\ user' = u
  /\ fetchUserTransactions(u)

\* the effect's request req is fulfilled
FetchUserTransactionsOk(req, fetchedTransactions) ==
  /\ histMounted /\ req \in effectRequests
  /\ transactions' = fetchedTransactions /\ histWriter' = req.n
  /\ histLoading' = FALSE
  /\ histReqs' = histReqs \ {req} /\ histLog' = settle(histLog, req, "ok")
  /\ histFetch' = IF histFetch = "pending" /\ \A r \in effectRequests : r.n <= req.n
                    THEN "settled" ELSE histFetch
  /\ event' = Ev("success") /\ issued' = <<>> /\ shown' = Nothing
  /\ UNCHANGED <<page, user, isRefreshing, histRefresh, histIssued, timeFrame>>

\* the catch only logs to the console and clears the list
FetchUserTransactionsFail(req) ==
  /\ histMounted /\ req \in effectRequests
  /\ transactions' = <<>> /\ histWriter' = req.n
  /\ histLoading' = FALSE
  /\ histReqs' = histReqs \ {req} /\ histLog' = settle(histLog, req, "fail")
  /\ histFetch' = IF histFetch = "pending" /\ \A r \in effectRequests : r.n <= req.n
                    THEN "settled" ELSE histFetch
  /\ event' = Failure(getTransactionsCall(req.userId).url)
  /\ issued' = <<>> /\ shown' = Nothing
  /\ UNCHANGED <<page, user, isRefreshing, histRefresh, histIssued, timeFrame>>

\* handleRefresh up to its await; the button is rendered once the page is no
\* longer loading
handleRefresh ==
  /\ histMounted /\ ~histLoading /\ histIssued < MaxRequests
  /\ event' = Ev("click") /\ shown' = Nothing
  /\ IF UserId(user) = "" \/ isRefreshing
       THEN /\ issued' = <<>>
            /\ UNCHANGED <<isRefreshing, histRefresh, histReqs, histIssued, histLog>>
       ELSE /\ isRefreshing' = TRUE /\ histRefresh' = "pending"
            /\ issued' = <<getTransactionsCall(UserId(user))>>
            /\ histIssued' = histIssued + 1
            /\ histReqs' = histReqs \cup {HistRequest(histIssued + 1, "refresh", UserId(user))}
            /\ histLog' = Append(histLog, Logged("refresh", UserId(user), "pending"))
  /\ UNCHANGED <<page, user, histLoading, transactions, histFetch, histWriter, timeFrame>>

\* a time frame is picked in the date filter
setTimeFrame(frame) ==
  /\ histMounted /\ ~histLoading
  /\ timeFrame' = frame
  /\ event' = Ev("click") /\ issued' = <<>> /\ shown' = Nothing
  /\ UNCHANGED <<page, user, histLoading, transactions, isRefreshing, histFetch,
                 histRefresh, histReqs, histIssued, histWriter, histLog>>

HandleRefreshOk(req, fetchedTransactions) ==
  /\ histMounted /\ req \in refreshRequests
  /\ transactions' = fetchedTransactions /\ histWriter' = req.n
  /\ isRefreshing' = FALSE /\ histRefresh' = "idle"
  /\ histReqs' = histReqs \ {req} /\ histLog' = settle(histLog, req, "ok")
  /\ event' = Ev("success") /\ issued' = <<>> /\ shown' = Nothing
  /\ UNCHANGED <<page, user, histLoading, histFetch, histIssued, timeFrame>>

\* variant of HandleRefreshFail: the catch calls getTransactions again
HandleRefreshFail_retry(req) ==
  /\ histMounted /\ req \in refreshRequests
  /\ event' = Failure(getTransactionsCall(req.userId).url)
  /\ issued' = <<getTransactionsCall(req.userId)>> /\ shown' = Nothing
  /\ UNCHANGED <<page, user, histLoading, transactions, isRefreshing, histFetch,
                 histRefresh, histReqs, histIssued, histWriter, histLog, timeFrame>>

\* variant of HandleRefreshFail: the catch clears the list as the effect's does
HandleRefreshFail_clears(req) ==
  /\ histMounted /\ req \in refreshRequests
  /\ transactions' = <<>> /\ histWriter' = req.n
  /\ isRefreshing' = FALSE /\ histRefresh' = "idle"
  /\ histReqs' = histReqs \ {req} /\ histLog' = settle(histLog, req, "fail")
  /\ event' = Failure(getTransactionsCall(req.userId).url)
  /\ issued' = <<>> /\ shown' = Nothing
  /\ UNCHANGED <<page, user, histLoading, histFetch, histIssued, timeFrame>>

\* the catch only logs to the console
HandleRefreshFail(req) ==
  /\ histMounted /\ req \in refreshRequests
  /\ isRefreshing' = FALSE /\ histRefresh' = "idle"
  /\ histReqs' = histReqs \ {req} /\ histLog' = settle(histLog, req, "fail")
  /\ event' = Failure(getTransactionsCall(req.userId).url)
  /\ issued' = <<>> /\ shown' = Nothing
  /\ UNCHANGED <<page, user, histLoading, transactions, histFetch, histIssued,
                 histWriter, timeFrame>>

HistNext ==
  \/ TransactionHistoryMount /\ HistFrame
  \/ \E u \in HistUsers : UserChange(u) /\ HistFrame
  \/ \E r \in histReqs, l \in HistTxLists : FetchUserTransactionsOk(r, l) /\ HistFrame
  \/ \E r \in histReqs : FetchUserTransactionsFail(r) /\ HistFrame
  \/ handleRefresh /\ HistFrame
  \/ \E r \in histReqs, l \in HistTxLists : HandleRefreshOk(r, l) /\ HistFrame
  \/ \E f \in TimeFrames : setTimeFrame(f) /\ HistFrame
  \/ \E r \in histReqs : HandleRefreshFail(r) /\ HistFrame

HistInit ==
  /\ histLoading = TRUE /\ transactions = <<>> /\ isRefreshing = FALSE
  /\ histFetch = "init" /\ histRefresh = "idle"
  /\ histReqs = {} /\ histIssued = 0 /\ histWriter = 0 /\ histLog = <<>>
  /\ timeFrame = "all"

\* ========================================================================
\* Numbers and dates of the Reports page
\* ========================================================================
RECURSIVE Pow2(_)
Pow2(n) == IF n = 0 THEN 1 ELSE 2 * Pow2(n - 1)

RECURSIVE BitLength(_)
BitLength(n) == IF n = 0 THEN 0 ELSE 1 + BitLength(n \div 2)

\* the number nearest to the natural n: n itself when its significand fits,
\* otherwise rounded to MantissaBits significant bits, ties to even
roundToNumber(n) ==
  LET e == IF BitLength(n) > MantissaBits THEN BitLength(n) - MantissaBits ELSE 0
      q == n \div Pow2(e)
      r == n % Pow2(e)
  IN  IF e = 0 THEN n
      ELSE IF 2 * r > Pow2(e) \/ (2 * r = Pow2(e) /\ q % 2 = 1)
        THEN (q + 1) * Pow2(e)
      ELSE q * Pow2(e)

\* a + b on numbers
plus(a, b) == roundToNumber(a + b)

\* ========================================================================
\* Reports page
\* ========================================================================
HistoryEntry(id, transactionType, amt, transactionDate) ==
  [id |-> id, senderId |-> "u1", receiverId |-> "u2",
   transactionType |-> transactionType, amount |-> amt,
   transactionDate |-> transactionDate]

\* entries the reporting service returns
HistoryEntries ==
  { HistoryEntry(1, "Send", 7, DateTime(2025, 4, 10, 0)),
    HistoryEntry(2, "Send", 1, DateTime(2025, 4, 30, 1)),
    HistoryEntry(3, "Send", 2, DateTime(2025, 3, 10, 0)),
    HistoryEntry(4, "Receive", 3, DateTime(2025, 3, 10, 1)),
    HistoryEntry(5, "Refund", 4, DateTime(2024, 11, 31, 1)),
    HistoryEntry(6, "Receive", 5, DateTime(2025, 0, 1, 0)) }

RECURSIVE SeqsUpTo(_, _)
SeqsUpTo(S, n) ==
  IF n = 0 THEN {<<>>}
  ELSE SeqsUpTo(S, n - 1) \cup { Append(q, x) : q \in SeqsUpTo(S, n - 1), x \in S }

\* histories of up to MaxBreakdown transactions of spring 2025, the first
\* k of them received and the others sent
BreakdownLists ==
  { [i \in 1..n |-> IF i <= k THEN HistoryEntry(4, "Receive", 3, DateTime(2025, 3, 10, 1))
                    ELSE HistoryEntry(1, "Send", 7, DateTime(2025, 4, 10, 0))] :
      n \in 1..MaxBreakdown, k \in 0..MaxBreakdown }

HistoryLists == SeqsUpTo(HistoryEntries, MaxHistory) \cup BreakdownLists

\* the clock: 31 May 2025 in the evening, 1 March 2025 in the morning
NowChoices == { DateTime(2025, 4, 31, 1), DateTime(2025, 2, 1, 0) }

ReportPeriods == {"1month", "3month", "6month", "1year"}

NoSummary == [present |-> FALSE, totalSent |-> 0, totalReceive |-> 0]
Summary(totalSent, totalReceive) ==
  [present |-> TRUE, totalSent |-> totalSent, totalReceive |-> totalReceive]
Summaries == { NoSummary, Summary(12, 8) }

\* a request of the Reports Promise.all; hasData says whether the response
\* body carries a data member
RepRequest(status, hasData, data, isError, message) ==
  [status |-> status, hasData |-> hasData, data |-> data, isError |-> isError,
   message |-> message]
RepNotIssued == RepRequest("none", FALSE, <<>>, FALSE, "")
RepPending == RepRequest("pending", FALSE, <<>>, FALSE, "")
RepOk(hasData, data) == RepRequest("ok", hasData, data, FALSE, "")
\* rejected with an Error that carries the message
RepFailed(message) == RepRequest("fail", FALSE, <<>>, TRUE, message)
\* rejected with a value that is not an Error
RepRejected == RepRequest("fail", FALSE, <<>>, FALSE, "")

\* what a reporting request can be rejected with
Rejections == { RepFailed(m) : m \in TransportErrors } \cup { RepRejected }

\* variant of reportErrorMessage: always the generic text
reportErrorMessage_generic(err) == "Failed to load report data."

\* err instanceof Error ? err.message : 'Failed to load report data.'
reportErrorMessage(err) ==
  IF err.isError THEN err.message ELSE "Failed to load report data."

\* historyResponse.data.map(entry => ({...}))
transformEntry(entry) ==
  [id |-> entry.id, senedrId |-> entry.senderId, receiverId |-> entry.receiverId,
   amount |-> entry.amount, createdAt |-> entry.transactionDate,
   type |-> entry.transactionType]
transformedData(data) == [i \in 1..Len(data) |-> transformEntry(data[i])]

\* variant of startDate: '1year' sets the month back by one as '1month' does
startDate_yearAsMonth(period, clock) ==
  LET back == CASE period = "1month" -> 1
                [] period = "3month" -> 3
                [] period = "6month" -> 6
                [] period = "1year" -> 1
                [] OTHER -> 3
  IN  dayNumber(clock.year, clock.month - back, clock.day) * TicksPerDay

\* the start of the period: months (or a year) before now, at midnight
startDate(period, clock) ==
  LET back == CASE period = "1month" -> 1
                [] period = "3month" -> 3
                [] period = "6month" -> 6
                [] period = "1year" -> 12
                [] OTHER -> 3
  IN  dayNumber(clock.year, clock.month - back, clock.day) * TicksPerDay

filteredHistoryData(history, period, clock) ==
  LET inPeriod(transaction) ==
        /\ getTime(transaction.createdAt) >= startDate(period, clock)
        /\ getTime(transaction.createdAt) <= getTime(clock)
  IN  SelectSeq(history, inPeriod)

\* a - b on numbers
minus(a, b) == IF a >= b THEN roundToNumber(a - b) ELSE 0 - roundToNumber(b - a)

\* total / count, or null
Null == [isNull |-> TRUE, total |-> 0, count |-> 1]
Quotient(total, count) == [isNull |-> FALSE, total |-> total, count |-> count]

\* periodStats: one pass over the filtered list
RECURSIVE periodTotals(_, _)
periodTotals(list, acc) ==
  IF list = <<>> THEN acc
  ELSE LET tx == Head(list)
           next == IF tx.type = "Send"
                     THEN [acc EXCEPT !.totalSent = plus(@, tx.amount),
                                      !.sendCount = @ + 1]
                   ELSE IF tx.type = "Receive"
                     THEN [acc EXCEPT !.totalReceived = plus(@, tx.amount),
                                      !.receiveCount = @ + 1]
                   ELSE acc
       IN  periodTotals(Tail(list), next)

periodStats(filtered) ==
  LET t == periodTotals(filtered, [totalSent |-> 0, totalReceived |-> 0,
                                   sendCount |-> 0, receiveCount |-> 0])
  IN  [transactionCount |-> Len(filtered),
       totalSent |-> t.totalSent,
       totalReceived |-> t.totalReceived,
       netFlow |-> minus(t.totalReceived, t.totalSent),
       averageSent |-> IF t.sendCount > 0 THEN Quotient(t.totalSent, t.sendCount) ELSE Null,
       averageReceived |-> IF t.receiveCount > 0
                             THEN Quotient(t.totalReceived, t.receiveCount) ELSE Null,
       sendCount |-> t.sendCount,
       receiveCount |-> t.receiveCount]

\* Math.round(x) for x = numerator / denominator >= 0: the nearest integer,
\* a half rounding up
MathRound(numerator, denominator) == (2 * numerator + denominator) \div (2 * denominator)

\* variant of percentOf: the share is cut off instead of rounded
percentOf_floor(count, transactionCount) ==
  (count * 100) \div (IF transactionCount = 0 THEN 1 ELSE transactionCount)

\* Math.round((count / (transactionCount || 1)) * 100), a percentage of the
\* Transaction Breakdown
percentOf(count, transactionCount) ==
  MathRound(count * 100, IF transactionCount = 0 THEN 1 ELSE transactionCount)

receivedPercent(stats) == percentOf(stats.receiveCount, stats.transactionCount)
sentPercent(stats) == percentOf(stats.sendCount, stats.transactionCount)

\* the key `${year}-${month}` of a transaction's month
monthKey(date) == <<getFullYear(date), "-", getMonth(date)>>

\* monthlyAggregates after the forEach: the entries in insertion order
RECURSIVE monthlyAggregates(_, _)
monthlyAggregates(list, agg) ==
  IF list = <<>> THEN agg
  ELSE LET tx == Head(list)
           date == tx.createdAt
           key == monthKey(date)
           known == \E i \in 1..Len(agg) : agg[i].key = key
           opened == IF known THEN agg
                     ELSE Append(agg, [key |-> key, sent |-> 0, received |-> 0,
                                       dateObject |-> dayNumber(getFullYear(date), getMonth(date), 1)
                                                       * TicksPerDay,
                                       monthDisplay |-> <<getMonth(date), getFullYear(date)>>])
           i == CHOOSE j \in 1..Len(opened) : opened[j].key = key
           added == IF tx.type = "Send"
                      THEN [opened EXCEPT ![i].sent = plus(@, tx.amount)]
                    ELSE IF tx.type = "Receive"
                      THEN [opened EXCEPT ![i].received = plus(@, tx.amount)]
                    ELSE opened
       IN  monthlyAggregates(Tail(list), added)

\* Array.prototype.sort with the comparator a.dateObject - b.dateObject (stable)
RECURSIVE insertByDate(_, _)
insertByDate(sorted, item) ==
  IF sorted = <<>> THEN <<item>>
  ELSE IF item.dateObject < Head(sorted).dateObject THEN <<item>> \o sorted
  ELSE <<Head(sorted)>> \o insertByDate(Tail(sorted), item)

RECURSIVE sortByDate(_)
sortByDate(items) ==
  IF items = <<>> THEN <<>>
  ELSE insertByDate(sortByDate(SubSeq(items, 1, Len(items) - 1)), items[Len(items)])

\* variant of monthlyChartData: the buckets stay in insertion order
monthlyChartData_unsorted(filtered) ==
  IF Len(filtered) = 0 THEN <<>>
  ELSE LET sorted == monthlyAggregates(filtered, <<>>)
       IN  [i \in 1..Len(sorted) |->
              [month |-> sorted[i].monthDisplay, sent |-> sorted[i].sent,
               received |-> sorted[i].received, dateObject |-> sorted[i].dateObject]]

monthlyChartData(filtered) ==
  IF Len(filtered) = 0 THEN <<>>
  ELSE LET sorted == sortByDate(monthlyAggregates(filtered, <<>>))
       IN  [i \in 1..Len(sorted) |->
              [month |-> sorted[i].monthDisplay, sent |-> sorted[i].sent,
               received |-> sorted[i].received, dateObject |-> sorted[i].dateObject]]

repMounted == page = "reports"

\* variant of repView: the empty view is tested before the error view
repView_emptyFirst ==
  IF repLoading THEN "loading"
  ELSE IF UserId(user) = "" THEN "login"
  ELSE IF Len(historyData) = 0 THEN "empty"
  ELSE IF repError # "" THEN "error"
  ELSE "report"

\* the view the page renders
repView ==
  IF repLoading THEN "loading"
  ELSE IF UserId(user) = "" THEN "login"
  ELSE IF repError # "" THEN "error"
  ELSE IF Len(historyData) = 0 THEN "empty"
  ELSE "report"

\* the row 'No transactions found for this period' of the full report's table
emptyPeriodRow ==
  repView = "report" /\ Len(filteredHistoryData(historyData, reportPeriod, now)) = 0

\* useEffect: fetchReportData up to its await
ReportsMount ==
  /\ repMounted /\ repFetch = "init"
  /\ event' = Ev("mount") /\ shown' = Nothing
  /\ repError' = ""
  /\ IF UserId(user) = ""
       THEN /\ repLoading' = FALSE
            /\ historyData' = <<>> /\ overallSummary' = NoSummary
            /\ repFetch' = "skipped" /\ issued' = <<>>
            /\ UNCHANGED <<repHist, repSum>>
       ELSE /\ repLoading' = TRUE
            /\ repFetch' = "running"
            /\ repHist' = RepPending /\ repSum' = RepPending
            /\ issued' = <<getHistoryCall(UserId(user)), getSummaryCall(UserId(user))>>
            /\ UNCHANGED <<historyData, overallSummary>>
  /\ UNCHANGED <<page, user, reportPeriod, now>>

\* fetchReportData after `await Promise.all([...])`; arrived is the response
\* that has just come in from url
fetchReportDataContinue(hist, sum, arrived, url) ==
  IF repFetch = "running" /\ allFulfilled(hist, sum)
    THEN /\ historyData' = IF hist.hasData THEN transformedData(hist.data) ELSE <<>>
         /\ overallSummary' = IF sum.hasData THEN sum.data ELSE NoSummary
         /\ repLoading' = FALSE /\ repFetch' = "settled"
         /\ event' = Ev("success") /\ shown' = Nothing
         /\ UNCHANGED repError
  ELSE IF repFetch = "running" /\ allRejected(hist, sum)
    THEN /\ repError' = reportErrorMessage(arrived)
         /\ shown' = Inline(reportErrorMessage(arrived))
         /\ historyData' = <<>> /\ overallSummary' = NoSummary
         /\ repLoading' = FALSE /\ repFetch' = "settled"
         /\ event' = Failure(url)
  ELSE /\ event' = Late(url, arrived.status = "fail") /\ shown' = Nothing
       /\ UNCHANGED <<historyData, overallSummary, repLoading, repFetch, repError>>

RepHistoryResponse(response) ==
  /\ repMounted /\ repHist.status = "pending"
  /\ repHist' = response
  /\ fetchReportDataContinue(response, repSum, response,
                             getHistoryCall(UserId(user)).url)
  /\ issued' = <<>>
  /\ UNCHANGED <<page, user, reportPeriod, repSum, now>>

RepSummaryResponse(response) ==
  /\ repMounted /\ repSum.status = "pending"
  /\ repSum' = response
  /\ fetchReportDataContinue(repHist, response, response,
                             getSummaryCall(UserId(user)).url)
  /\ issued' = <<>>
  /\ UNCHANGED <<page, user, reportPeriod, repHist, now>>

\* the period buttons of the full report
setReportPeriod(period) ==
  /\ repMounted /\ repView = "report"
  /\ reportPeriod' = period
  /\ event' = Ev("edit") /\ issued' = <<>> /\ shown' = Nothing
  /\ UNCHANGED <<page, user, repLoading, historyData, overallSummary, repError,
                 repFetch, repHist, repSum, now>>

RepNext ==
  \/ ReportsMount /\ RepFrame
  \/ \E l \in HistoryLists : RepHistoryResponse(RepOk(TRUE, l)) /\ RepFrame
  \/ RepHistoryResponse(RepOk(FALSE, <<>>)) /\ RepFrame
  \/ \E r \in Rejections : RepHistoryResponse(r) /\ RepFrame
  \/ \E v \in Summaries : RepSummaryResponse(RepOk(v.present, v)) /\ RepFrame
  \/ \E r \in Rejections : RepSummaryResponse(r) /\ RepFrame
  \/ \E p \in ReportPeriods : setReportPeriod(p) /\ RepFrame

RepInit ==
  /\ repLoading = TRUE /\ historyData = <<>> /\ overallSummary = NoSummary
  /\ reportPeriod = "3month" /\ repError = ""
  /\ repFetch = "init" /\ repHist = RepNotIssued /\ repSum = RepNotIssued
  /\ now \in (IF page = "reports" THEN NowChoices
              ELSE IF page = "history" THEN HistNowChoices
              ELSE {DateTime(2025, 4, 31, 1)})

\* ========================================================================
\* App: the routes
\* ========================================================================
\* what App renders: the Loading view, a routed page (the protected ones
\* inside MainLayout's outlet) or a <Navigate to=...> redirect
LoadingView == [kind |-> "Loading", target |-> ""]
PageView(name) == [kind |-> "page", target |-> name]
Navigate(to) == [kind |-> "Navigate", target |-> to]

\* paths of the routes under the layout route "/" and the page of each
LayoutRoutes ==
  [p \in {"/dashboard", "/send", "/history", "/reports"} |->
     CASE p = "/dashboard" -> "dashboard" [] p = "/send" -> "send"
       [] p = "/history" -> "history" [] p = "/reports" -> "reports"]

\* paths a browser can be at; the last two match no route but "*"
Paths == {"/", "/login", "/register", "/nope", "/dashboard/x"} \cup DOMAIN LayoutRoutes

\* variant of App: the layout route renders MainLayout without asking for
\* isAuthenticated
App_unguarded(path, authenticated, loading) ==
  IF loading THEN LoadingView
  ELSE IF path = "/login"
    THEN (IF ~authenticated THEN PageView("login") ELSE Navigate("/dashboard"))
  ELSE IF path = "/register"
    THEN (IF ~authenticated THEN PageView("register") ELSE Navigate("/dashboard"))
  ELSE IF path = "/" THEN Navigate("/dashboard")
  ELSE IF path \in DOMAIN LayoutRoutes THEN PageView(LayoutRoutes[path])
  ELSE Navigate(IF authenticated THEN "/dashboard" ELSE "/login")

\* the element App returns for the current URL
App(path, authenticated, loading) ==
  IF loading THEN LoadingView
  ELSE IF path = "/login"
    THEN (IF ~authenticated THEN PageView("login") ELSE Navigate("/dashboard"))
  ELSE IF path = "/register"
    THEN (IF ~authenticated THEN PageView("register") ELSE Navigate("/dashboard"))
  ELSE IF path = "/" \/ path \in DOMAIN LayoutRoutes
    THEN (IF ~authenticated THEN Navigate("/login")
          ELSE IF path = "/" THEN Navigate("/dashboard")
          ELSE PageView(LayoutRoutes[path]))
  ELSE Navigate(IF authenticated THEN "/dashboard" ELSE "/login")

\* the path at which App renders a page
pathOf(name) ==
  CASE name = "login" -> "/login" [] name = "register" -> "/register"
    [] name = "dashboard" -> "/dashboard" [] name = "send" -> "/send"
    [] name = "history" -> "/history" [] name = "reports" -> "/reports"
    [] OTHER -> "/dashboard"

appMounted == page = "app"

\* a rendered <Navigate> replaces the location
AppRedirect ==
  /\ appMounted
  /\ App(location, isAuthenticated, authLoading).kind = "Navigate"
  /\ location' = App(location, isAuthenticated, authLoading).target
  /\ event' = Ev("redirect") /\ issued' = <<>> /\ shown' = Nothing
  /\ UNCHANGED <<page, user, isAuthenticated, authLoading>>

\* the auth context finishes loading the stored session
AuthLoaded(authenticated) ==
  /\ appMounted /\ authLoading
  /\ authLoading' = FALSE /\ isAuthenticated' = authenticated
  /\ event' = Ev("auth") /\ issued' = <<>> /\ shown' = Nothing
  /\ UNCHANGED <<page, user, location>>

\* the session starts (login, register) or ends (logout)
SessionChange ==
  /\ appMounted /\ ~authLoading
  /\ isAuthenticated' = ~isAuthenticated
  /\ event' = Ev("auth") /\ issued' = <<>> /\ shown' = Nothing
  /\ UNCHANGED <<page, user, location, authLoading>>

\* the user follows a link or enters an address
GoTo(path) ==
  /\ appMounted
  /\ location' = path
  /\ event' = Ev("click") /\ issued' = <<>> /\ shown' = Nothing
  /\ UNCHANGED <<page, user, isAuthenticated, authLoading>>

AppNext ==
  \/ AppRedirect /\ AppFrame
  \/ \E b \in BOOLEAN : AuthLoaded(b) /\ AppFrame
  \/ SessionChange /\ AppFrame
  \/ \E p \in Paths : GoTo(p) /\ AppFrame

\* a routed page is mounted at its path by a loaded App; when App itself is
\* followed, any path and any auth state
AppInit ==
  /\ location \in (IF page = "app" THEN Paths ELSE {pathOf(page)})
  /\ authLoading \in (IF page = "app" THEN BOOLEAN ELSE {FALSE})
  /\ isAuthenticated \in (IF page = "app" THEN BOOLEAN
                          ELSE {page \notin {"login", "register"}})

\* ========================================================================
\* AlertProvider and Alert
\* ========================================================================
\* the default of Alert's duration, in ms
duration == 5000

\* what the pages give to showAlert
AlertInputs == {<<"success", "Money sent successfully!">>, <<"error", "Network Error">>}

\* an alert of the provider's list, with the time since it was shown and the
\* time left on the timer its Alert has set
Shown(id, type, message, age, timer) ==
  [id |-> id, type |-> type, message |-> message, age |-> age, timer |-> timer]

alertsMounted == page = "alerts"

\* variant of renderAlerts: onClose stays the same function, no effect runs
\* again
renderAlerts_stableOnClose(list) == list

\* AlertProvider renders: every Alert gets a new onClose function, so the
\* effect of every Alert clears its timer and sets a new one of duration ms
renderAlerts(list) == [i \in 1..Len(list) |-> [list[i] EXCEPT !.timer = duration]]

\* removeAlert's update of the list
removeAlert(list, id) ==
  LET others(alert) == alert.id # id
  IN  SelectSeq(list, others)

\* showAlert; ids are random strings, modelled as distinct
showAlert(type, message) ==
  /\ alertsMounted /\ alertCount < MaxAlerts
  /\ alertCount' = alertCount + 1
  /\ alerts' = Append(renderAlerts(alerts),
                      Shown(alertCount + 1, type, message, 0, duration))
  /\ event' = Ev("show") /\ issued' = <<>> /\ shown' = Alert(type, message)
  /\ UNCHANGED <<page, user>>

\* the timer of an Alert fires and calls onClose
AlertTimeout(id) ==
  /\ alertsMounted
  /\ \E i \in 1..Len(alerts) : alerts[i].id = id /\ alerts[i].timer = 0
  /\ alerts' = renderAlerts(removeAlert(alerts, id))
  /\ event' = Ev("timer") /\ issued' = <<>> /\ shown' = Nothing
  /\ UNCHANGED <<page, user, alertCount>>

\* the user clicks the close button of an Alert
AlertClose(id) ==
  /\ alertsMounted
  /\ \E i \in 1..Len(alerts) : alerts[i].id = id
  /\ alerts' = renderAlerts(removeAlert(alerts, id))
  /\ event' = Ev("click") /\ issued' = <<>> /\ shown' = Nothing
  /\ UNCHANGED <<page, user, alertCount>>

\* half of duration passes; a timer that is due fires before more time passes
AlertTick ==
  /\ alertsMounted /\ alerts # <<>>
  /\ \A i \in 1..Len(alerts) : alerts[i].timer > 0
  /\ alerts' = [i \in 1..Len(alerts) |->
                  [alerts[i] EXCEPT !.age = @ + duration \div 2,
                                    !.timer = @ - duration \div 2]]
  /\ event' = Ev("tick") /\ issued' = <<>> /\ shown' = Nothing
  /\ UNCHANGED <<page, user, alertCount>>

AlertNext ==
  \/ \E input \in AlertInputs : showAlert(input[1], input[2]) /\ AlertFrame
  \/ \E id \in 1..MaxAlerts : AlertTimeout(id) /\ AlertFrame
  \/ \E id \in 1..MaxAlerts : AlertClose(id) /\ AlertFrame
  \/ AlertTick /\ AlertFrame

AlertInit == alerts = <<>> /\ alertCount = 0

\* ========================================================================
\* The whole client
\* ========================================================================
Init ==
  /\ page \in Views
  \* the router renders Login and Register only to a visitor who is not
  \* authenticated
  /\ user \in (IF page \in {"login", "register", "app"} THEN {UserNull}
               ELSE IF page = "alerts" THEN {UserObject("u1")}
               ELSE Users)
  /\ event = Ev("init") /\ issued = <<>> /\ shown = Nothing
  /\ failedUrls = {} /\ lastAuth = NoAuth
  /\ SendInit
  /\ RegInit
  /\ LoginInit
  /\ DashInit
  /\ HistInit
  /\ RepInit
  /\ AppInit
  /\ AlertInit

\* the routed page, or App, takes a step
Next ==
  \/ SendNext
  \/ RegNext
  \/ LoginNext
  \/ DashNext
  \/ HistNext
  \/ RepNext
  \/ AppNext
  \/ AlertNext

Spec == Init /\ [][Next]_vars

\* the remote services answer: each kind of pending request is settled,
\* fulfilled or rejected
UserInfoSettles ==
  ((\E b \in Balances : FetchUserInfoOk(b)) \/ FetchUserInfoFail) /\ SendFrame
SendMoneySettles ==
  (SendMoneyOk \/ \E m \in TransportErrors : SendMoneyFail(m)) /\ SendFrame
SendRefetchSettles ==
  ((\E b \in Balances : SendRefetchOk(b)) \/ \E m \in TransportErrors : SendRefetchFail(m))
    /\ SendFrame
DashTransactionsSettles ==
  ((\E l \in TxLists : DashTransactionsResponse(Ok(l))) \/ DashTransactionsResponse(Failed))
    /\ DashFrame
DashBalanceSettles ==
  ((\E b \in Balances : DashBalanceResponse(Ok(b))) \/ DashBalanceResponse(Failed))
    /\ DashFrame
UpdateBalanceSettles ==
  ((\E b \in Balances : UpdateBalanceOk(b)) \/ UpdateBalanceFail) /\ DashFrame

\* Spec with the event loop's guarantees: a timer that was set fires, and a
\* request that was sent is settled
FairSpec ==
  /\ Spec
  /\ WF_vars(SendNavigate /\ SendFrame)
  /\ WF_vars(UserInfoSettles)
  /\ WF_vars(SendMoneySettles)
  /\ WF_vars(SendRefetchSettles)
  /\ WF_vars(DashTransactionsSettles)
  /\ WF_vars(DashBalanceSettles)
  /\ WF_vars(UpdateBalanceSettles)

\* ========================================================================
\* Properties
\* ========================================================================

\* C1: sendMoney is invoked only with a receiverPhone that matches
\* ^\+[1-9]\d{1,14}$; a submit whose phone is empty or does not match shows
\* an error alert, issues no request and leaves loading false.
C1_PhoneGuard ==
  LET matches(p) == /\ Len(p) >= 3 /\ Len(p) <= 16
                    /\ p[1] = "+" /\ p[2] \in Digits \ {"0"}
                    /\ \A i \in 3..Len(p) : p[i] \in Digits
  IN  /\ \A i \in DOMAIN issued :
           issued[i].service = "sendMoney" => matches(issued[i].args[2])
      /\ (page = "send" /\ event.kind = "submit" /\ ~matches(receiverPhone))
           => /\ shown.via = "alert" /\ shown.type = "error"
              /\ issued = <<>>
              /\ ~sendLoading

\* a submit with a phone of too many digits was rejected with an alert
C1_Witness ==
  /\ page = "send" /\ event.kind = "submit"
  /\ Len(receiverPhone) > 16
  /\ shown.via = "alert" /\ issued = <<>>

\* C2 as stated: a submit whose amount is greater than the cached balance is
\* rejected with the message 'Insufficient balance', and sendMoney is never
\* invoked with an amount exceeding the balance cached at submit time.
C2_Original ==
  LET numAmount == parseFloat(amount)
      cached == IF userInfo.present THEN userInfo.balance ELSE 0
  IN  /\ (page = "send" /\ event.kind = "submit"
          /\ ~isNaN(numAmount) /\ GtCents(numAmount, cached))
           => shown = Alert("error", "Insufficient balance") /\ issued = <<>>
      /\ \A i \in DOMAIN issued :
           issued[i].service = "sendMoney" => ~GtCents(issued[i].args[3], cached)

\* C2 amended: a submit with a valid phone whose amount is at least 0.01 and
\* greater than the cached balance is rejected with the message 'Insufficient
\* balance', and sendMoney is never invoked with an amount exceeding the
\* balance cached at submit time.
C2_InsufficientBalance ==
  LET numAmount == parseFloat(amount)
      cached == IF userInfo.present THEN userInfo.balance ELSE 0
      matches(p) == /\ Len(p) >= 3 /\ Len(p) <= 16
                    /\ p[1] = "+" /\ p[2] \in Digits \ {"0"}
                    /\ \A i \in 3..Len(p) : p[i] \in Digits
  IN  /\ (page = "send" /\ event.kind = "submit" /\ matches(receiverPhone)
          /\ ~isNaN(numAmount) /\ GeCents(numAmount, 1) /\ GtCents(numAmount, cached))
           => shown = Alert("error", "Insufficient balance") /\ issued = <<>>
      /\ \A i \in DOMAIN issued :
           issued[i].service = "sendMoney" => ~GtCents(issued[i].args[3], cached)

\* a submit was rejected for exceeding a cached balance that was fetched
C2_Witness ==
  /\ page = "send" /\ event.kind = "submit"
  /\ userInfo.present
  /\ shown = Alert("error", "Insufficient balance")

\* the numbers of a list added from left to right, as the code adds them
RECURSIVE added(_)
added(numbers) ==
  IF numbers = <<>> THEN 0
  ELSE plus(added(SubSeq(numbers, 1, Len(numbers) - 1)), numbers[Len(numbers)])

\* the exact sum of the numbers of a list
RECURSIVE exactSum(_)
exactSum(numbers) ==
  IF numbers = <<>> THEN 0 ELSE numbers[1] + exactSum(Tail(numbers))

\* the amounts of the transactions of a list that have the given type
amountsOfType(list, type) ==
  LET hasType(tx) == tx.type = type
      chosen == SelectSeq(list, hasType)
  IN  [i \in 1..Len(chosen) |-> chosen[i].amount]

\* what C3 says of monthlyChartData for one filtered list; totals says for
\* which transaction types the sums over all buckets are compared with
\* periodStats
monthlyChartClaim(filtered, totals) ==
  LET chart == monthlyChartData(filtered)
      stats == periodStats(filtered)
      monthOf(tx) == <<tx.createdAt.year, tx.createdAt.month>>
      months == { monthOf(filtered[i]) : i \in 1..Len(filtered) }
      bucketMonth(b) == <<b.month[2], b.month[1]>>
      ofMonth(m) == LET inMonth(tx) == monthOf(tx) = m IN SelectSeq(filtered, inMonth)
      earlier(m1, m2) == m1[1] < m2[1] \/ (m1[1] = m2[1] /\ m1[2] < m2[2])
  IN  /\ Len(chart) = Cardinality(months)
      /\ { bucketMonth(chart[i]) : i \in 1..Len(chart) } = months
      /\ \A i \in 1..Len(chart) :
           /\ chart[i].sent = added(amountsOfType(ofMonth(bucketMonth(chart[i])), "Send"))
           /\ chart[i].received
                = added(amountsOfType(ofMonth(bucketMonth(chart[i])), "Receive"))
      /\ \A i, j \in 1..Len(chart) :
           i < j => earlier(bucketMonth(chart[i]), bucketMonth(chart[j]))
      /\ "Send" \in totals
           => added([i \in 1..Len(chart) |-> chart[i].sent]) = stats.totalSent
      /\ "Receive" \in totals
           => added([i \in 1..Len(chart) |-> chart[i].received]) = stats.totalReceived

\* C3 as stated: monthlyChartData has exactly one bucket per distinct (year,
\* month) of createdAt, each bucket's sent (received) is the sum of the
\* amounts of that month's 'Send' ('Receive') transactions, the buckets are
\* in ascending month order, and the bucket sums added over all buckets equal
\* periodStats.totalSent and periodStats.totalReceived.
C3_Original ==
  page = "reports"
    => monthlyChartClaim(filteredHistoryData(historyData, reportPeriod, now),
                         {"Send", "Receive"})

\* C3 amended: one bucket per distinct (year, month), each bucket's sent
\* (received) is the sum of that month's 'Send' ('Receive') amounts, buckets
\* ascend by month, and the bucket sums added over all buckets equal
\* periodStats.totalSent (totalReceived) whenever the exact sum of the
\* period's 'Send' ('Receive') amounts is a number that needs no rounding;
\* otherwise the two may differ by floating-point rounding.
C3_MonthlyChart ==
  LET filtered == filteredHistoryData(historyData, reportPeriod, now)
      exact(type) == exactSum(amountsOfType(filtered, type)) < Pow2(MantissaBits)
  IN  page = "reports"
        => monthlyChartClaim(filtered, { type \in {"Send", "Receive"} : exact(type) })

\* a report whose period spans two months with money sent and received, the
\* total sent being exact
C3_Witness ==
  LET filtered == filteredHistoryData(historyData, reportPeriod, now)
  IN  /\ page = "reports" /\ repView = "report"
      /\ Len(monthlyChartData(filtered)) >= 2
      /\ periodStats(filtered).totalSent > 0
      /\ periodStats(filtered).totalReceived > 0
      /\ exactSum(amountsOfType(filtered, "Send")) < Pow2(MantissaBits)

\* C4 as stated: on Reports and on Dashboard, loading is never false while
\* either of the two requests issued on mount is still pending.
C4_Original ==
  /\ (page = "reports" /\ ~repLoading)
       => repHist.status # "pending" /\ repSum.status # "pending"
  /\ (page = "dashboard" /\ ~dashLoading)
       => dashTx.status # "pending" /\ dashBal.status # "pending"

\* C4 amended: on Reports and on Dashboard, loading is never false while
\* either of the two requests issued on mount is still pending, unless the
\* other request has already failed.
C4_LoadingUntilSettled ==
  /\ (page = "reports" /\ ~repLoading)
       => \/ repHist.status # "pending" /\ repSum.status # "pending"
          \/ repHist.status = "fail" \/ repSum.status = "fail"
  /\ (page = "dashboard" /\ ~dashLoading)
       => \/ dashTx.status # "pending" /\ dashBal.status # "pending"
          \/ dashTx.status = "fail" \/ dashBal.status = "fail"

\* the Dashboard has left its loading state after getTransactions failed
\* while getBalance is still pending
C4_Witness ==
  /\ page = "dashboard" /\ ~dashLoading
  /\ dashTx.status = "fail" /\ dashBal.status = "pending"

\* C5 as stated: every failed network call that reaches a page's handler
\* results in an error alert or an inline error message being shown.
C5_FailuresShown ==
  event.kind = "failure"
    => shown.via \in {"alert", "inline"} /\ shown.type = "error" /\ shown.message # ""

C7_RelativeUrls ==
  \A i \in DOMAIN issued :
    /\ issued[i].url.origin = ""
    /\ Len(issued[i].url.path) >= 2
    /\ issued[i].url.path[1] = "api"
    /\ issued[i].url.path[2] \in {"User", "Transaction", "Report"}

C9_PositiveAmount ==
  \A i \in DOMAIN issued :
    /\ issued[i].service = "sendMoney"
         => LET a == issued[i].args[3]
            IN  ~a.nan /\ ~a.neg /\ a.mant * 100 >= Pow10(a.scale)
    /\ issued[i].service = "updateBalance"
         => LET a == issued[i].args[2]
            IN  ~a.nan /\ ~a.neg /\ a.mant > 0

\* updateBalance was called from the add-funds form
C9_Witness ==
  /\ page = "dashboard" /\ event.kind = "submit"
  /\ \E i \in DOMAIN issued : issued[i].service = "updateBalance"

\* C10 as stated: on any failure loginUser and registerUser reject with the
\* server's message when the HTTP response carries one, with the default
\* ('Login failed' / 'Registration failed') when the response has no message,
\* and with 'Network error, please try again later' when there is no HTTP
\* response; they never resolve on a failure.
C10_Original ==
  LET o == lastAuth.outcome
      r == lastAuth.result
      fallback == IF lastAuth.fn = "loginUser" THEN "Login failed" ELSE "Registration failed"
      failure == ~(o.kind = "fulfilled" /\ o.token.present /\ o.token.decodable)
  IN  (lastAuth.fn # "none" /\ failure)
        => /\ r.status = "rejected"
           /\ r.message = IF o.kind = "noResponse"
                            THEN "Network error, please try again later"
                          ELSE IF o.message # "" THEN o.message
                          ELSE fallback

\* C10 amended: when the request is rejected with an HTTP error response,
\* loginUser and registerUser reject with the server's message when the
\* response carries one and with the default ('Login failed' / 'Registration
\* failed') when it has none; on every other failure (no HTTP response, or a
\* successful response whose token is missing or cannot be decoded) they
\* reject with 'Network error, please try again later'; they never resolve
\* on a failure.
C10_AuthErrors ==
  LET o == lastAuth.outcome
      r == lastAuth.result
      fallback == IF lastAuth.fn = "loginUser" THEN "Login failed" ELSE "Registration failed"
      failure == ~(o.kind = "fulfilled" /\ o.token.present /\ o.token.decodable)
  IN  (lastAuth.fn # "none" /\ failure)
        => /\ r.status = "rejected"
           /\ r.message = IF o.kind # "httpError"
                            THEN "Network error, please try again later"
                          ELSE IF o.message # "" THEN o.message
                          ELSE fallback

\* loginUser rejected a successful response whose token could not be decoded
C10_Witness ==
  /\ lastAuth.fn = "loginUser"
  /\ lastAuth.outcome.kind = "fulfilled" /\ lastAuth.outcome.token.present
  /\ lastAuth.result = Rejected("Network error, please try again later")

\* C11: while auth is loading App renders only the Loading view; a protected
\* page (Dashboard, SendMoney, TransactionHistory, Reports) is never rendered
\* while isAuthenticated is false, its path redirecting to /login; Login and
\* Register are never rendered while isAuthenticated is true, their paths
\* redirecting to /dashboard; an unknown path redirects to /dashboard when
\* authenticated and to /login otherwise.
C11_RouteGuard ==
  LET view == App(location, isAuthenticated, authLoading)
      protected == {"dashboard", "send", "history", "reports"}
      protectedPaths == {"/dashboard", "/send", "/history", "/reports"}
      publicPaths == {"/login", "/register"}
  IN  /\ authLoading => view.kind = "Loading"
      /\ (view.kind = "page" /\ view.target \in protected) => isAuthenticated
      /\ (~authLoading /\ ~isAuthenticated /\ location \in protectedPaths)
           => view.kind = "Navigate" /\ view.target = "/login"
      /\ (view.kind = "page" /\ view.target \in {"login", "register"}) => ~isAuthenticated
      /\ (~authLoading /\ isAuthenticated /\ location \in publicPaths)
           => view.kind = "Navigate" /\ view.target = "/dashboard"
      /\ (~authLoading /\ location \notin protectedPaths \cup publicPaths \cup {"/"})
           => /\ view.kind = "Navigate"
              /\ view.target = IF isAuthenticated THEN "/dashboard" ELSE "/login"

\* a visitor who is not authenticated was redirected and App now renders Login
C11_Witness ==
  /\ page = "app" /\ event.kind = "redirect"
  /\ ~isAuthenticated /\ ~authLoading
  /\ App(location, isAuthenticated, authLoading).kind = "page"
  /\ App(location, isAuthenticated, authLoading).target = "login"

\* C12: Reports renders exactly one of five views, chosen by priority: the
\* loading skeleton while loading; otherwise 'Login Required' when there is
\* no user id; otherwise the error view when error is set; otherwise the 'No
\* Transaction Data Yet' view when the fetched history is empty; otherwise
\* the full report.  A non-empty history whose selected period contains no
\* transaction shows the full report with the row 'No transactions found for
\* this period', not the empty view.
C12_ReportViews ==
  LET noUser == UserId(user) = ""
      inPeriod == filteredHistoryData(historyData, reportPeriod, now)
  IN  page = "reports"
        => /\ repView \in {"loading", "login", "error", "empty", "report"}
           /\ repView = "loading" <=> repLoading
           /\ repView = "login" <=> (~repLoading /\ noUser)
           /\ repView = "error" <=> (~repLoading /\ ~noUser /\ repError # "")
           /\ repView = "empty"
                <=> (~repLoading /\ ~noUser /\ repError = "" /\ historyData = <<>>)
           /\ repView = "report"
                <=> (~repLoading /\ ~noUser /\ repError = "" /\ historyData # <<>>)
           /\ (~repLoading /\ ~noUser /\ repError = "" /\ historyData # <<>>
               /\ inPeriod = <<>>)
                => repView = "report" /\ emptyPeriodRow
           /\ emptyPeriodRow => repView # "empty"

\* a history was fetched none of whose transactions lies in the selected
\* period, and the full report shows the empty row
C12_Witness ==
  /\ page = "reports" /\ repFetch = "settled"
  /\ historyData # <<>>
  /\ filteredHistoryData(historyData, reportPeriod, now) = <<>>
  /\ repView = "report" /\ emptyPeriodRow

\* C13: the bearer token is decoded and never verified: for any two login
\* responses whose tokens carry the same nameidentifier and name claims,
\* loginUser returns the same session user (id and name from the claims,
\* email from the submitted form), whatever the tokens' exp, iss, aud or
\* signature; here the one response is the last one loginUser settled with
\* and the other is any response the service can give.
C13_TokenNotVerified ==
  LET o1 == lastAuth.outcome
      carries(o) == o.kind = "fulfilled" /\ o.token.present /\ o.token.decodable
  IN  (lastAuth.fn = "loginUser" /\ carries(o1))
        => /\ lastAuth.result.status = "resolved"
           /\ lastAuth.result.user = [id |-> o1.token.nameidentifier,
                                      name |-> o1.token.name,
                                      email |-> loginEmail]
           /\ getUserIdFromToken(lastAuth.result.token) = o1.token.nameidentifier
           /\ \A o2 \in AuthOutcomes :
                (/\ carries(o2)
                 /\ o2.token.nameidentifier = o1.token.nameidentifier
                 /\ o2.token.name = o1.token.name)
                  => /\ loginUser(loginEmail, loginPassword, o2).status = "resolved"
                     /\ loginUser(loginEmail, loginPassword, o2).user
                          = lastAuth.result.user

\* loginUser resolved with the user of a token whose signature is forged
C13_Witness ==
  /\ page = "login" /\ lastAuth.fn = "loginUser"
  /\ lastAuth.outcome.kind = "fulfilled"
  /\ ~lastAuth.outcome.token.unread.signed
  /\ lastAuth.result.status = "resolved"
  /\ lastAuth.result.user.id = "u2"

\* C14 as stated: in the Transaction Breakdown, whenever the selected period
\* contains at least one transaction and every transaction is of type 'Send'
\* or 'Receive', the displayed rounded percentages for Received and Sent sum
\* to exactly 100; when the period is empty both are 0.
C14_Original ==
  LET inPeriod == filteredHistoryData(historyData, reportPeriod, now)
      stats == periodStats(inPeriod)
      twoTypes == \A i \in 1..Len(inPeriod) : inPeriod[i].type \in {"Send", "Receive"}
  IN  (page = "reports" /\ repView = "report")
        => /\ (inPeriod # <<>> /\ twoTypes)
                => receivedPercent(stats) + sentPercent(stats) = 100
           /\ inPeriod = <<>> => receivedPercent(stats) = 0 /\ sentPercent(stats) = 0

\* C14 amended: under the same conditions the two displayed percentages sum
\* to exactly 100, except that when the Received share is an exact half
\* percent (200 times the received count is an odd multiple of the
\* transaction count, as for 1 of 8) both can be rounded up and the sum be
\* 101; when the period is empty both are 0.
C14_BreakdownPercentages ==
  LET inPeriod == filteredHistoryData(historyData, reportPeriod, now)
      stats == periodStats(inPeriod)
      twoTypes == \A i \in 1..Len(inPeriod) : inPeriod[i].type \in {"Send", "Receive"}
      received == Cardinality({ i \in 1..Len(inPeriod) : inPeriod[i].type = "Receive" })
      half == (200 * received) % (2 * Len(inPeriod)) = Len(inPeriod)
  IN  (page = "reports" /\ repView = "report")
        => /\ (inPeriod # <<>> /\ twoTypes)
                => \/ receivedPercent(stats) + sentPercent(stats) = 100
                   \/ half /\ receivedPercent(stats) + sentPercent(stats) = 101
           /\ inPeriod = <<>> => receivedPercent(stats) = 0 /\ sentPercent(stats) = 0

\* a period of three transactions, one received and two sent: 33% and 67%
C14_Witness ==
  LET inPeriod == filteredHistoryData(historyData, reportPeriod, now)
      stats == periodStats(inPeriod)
  IN  /\ page = "reports" /\ repView = "report"
      /\ stats.transactionCount = 3 /\ stats.receiveCount = 1 /\ stats.sendCount = 2
      /\ receivedPercent(stats) = 33 /\ sentPercent(stats) = 67

\* the state in which handleSubmit has just seen sendMoney succeed
sendMoneySucceeded ==
  page = "send" /\ event.kind = "success" /\ sendPhase = "getUserInfo"

\* C15 as stated: whenever a sendMoney request succeeds, the form fields and
\* touched flags are reset, the cached user info is re-fetched, and the user
\* is eventually navigated to /dashboard.
C15_ResetRefetchNavigate ==
  /\ [](sendMoneySucceeded
          => /\ receiverPhone = <<>> /\ amount = <<>>
             /\ ~phoneTouched /\ ~amountTouched
             /\ issued = <<getUserInfoCall(UserId(user))>>)
  /\ (sendMoneySucceeded ~> sendNav = "dashboard")

\* C16 as stated: a submit produces exactly one outcome alert, 'Money sent
\* successfully!' if and only if the sendMoney request succeeded and an error
\* alert if and only if it failed; no error alert is ever shown for a submit
\* whose transfer succeeded.
C16_OneOutcomeAlert ==
  page = "send"
    => /\ (submitLog.transfer = "ok" /\ sendPhase = "idle")
            => submitLog.alerts = <<"success">>
       /\ (submitLog.transfer = "fail" /\ sendPhase = "idle")
            => submitLog.alerts = <<"error">>
       /\ submitLog.transfer = "ok"
            => \A i \in DOMAIN submitLog.alerts : submitLog.alerts[i] # "error"

\* C17: at most one sendMoney request is in flight: a sendMoney request is
\* only sent by a step that starts with loading false and sets it; loading is
\* true exactly while handleSubmit waits for sendMoney or for the follow-up
\* getUserInfo, and so false again once they settle, on success and on
\* failure; while loading is true the submit button is disabled and no input
\* is edited.
C17_OneInFlight ==
  /\ [][(page = "send" /\ \E i \in DOMAIN issued' : issued'[i].service = "sendMoney")
          => ~sendLoading /\ sendPhase = "idle" /\ sendLoading' /\ Len(issued') = 1]_vars
  /\ [][(page = "send" /\ sendLoading)
          => /\ receiverPhone' = receiverPhone \/ sendPhase = "sendMoney"
             /\ amount' = amount \/ sendPhase = "sendMoney"
             /\ event'.kind \notin {"edit", "submit"}]_vars
  /\ [](page = "send"
          => /\ sendLoading <=> sendPhase \in {"sendMoney", "getUserInfo"}
             /\ sendLoading => sendSubmitDisabled)

\* a transfer failed and the form is enabled again
C17_Witness ==
  /\ page = "send" /\ event.kind = "failure"
  /\ submitLog.transfer = "fail"
  /\ ~sendLoading /\ sendPhase = "idle"

\* C18: in the Dashboard's add-funds form a failed updateBalance leaves the
\* displayed balance and the amount input unchanged and shows 'Failed to
\* update balance'; a successful one sets balance to the response's
\* newbalance and clears the input; in both cases updating returns to false;
\* and no updateBalance request starts while updating is true.
C18_AddFunds ==
  /\ [][(page = "dashboard" /\ updating /\ updateResponse'.status = "fail")
          => /\ balance' = balance /\ newBalance' = newBalance
             /\ shown' = Alert("error", "Failed to update balance")
             /\ ~updating']_vars
  /\ [][(page = "dashboard" /\ updating /\ updateResponse'.status = "ok")
          => /\ balance' = updateResponse'.data /\ newBalance' = <<>>
             /\ ~updating']_vars
  /\ [][(page = "dashboard" /\ \E i \in DOMAIN issued' : issued'[i].service = "updateBalance")
          => ~updating /\ updating' /\ Len(issued') = 1]_vars
  /\ [][(page = "dashboard" /\ updating) => event'.kind \notin {"submit", "edit"}]_vars

\* an updateBalance request failed: the typed amount is still in the input
C18_Witness ==
  /\ page = "dashboard" /\ event.kind = "failure"
  /\ updateResponse.status = "fail"
  /\ newBalance # <<>> /\ ~updating
  /\ shown = Alert("error", "Failed to update balance")

\* C19 as stated: after Dashboard mounts, its loading flag eventually becomes
\* false in every execution: when both requests succeed, when either fails,
\* and when no user id is available.
C19_LoadingEnds ==
  (page = "dashboard" /\ dashFetch # "init") ~> ~dashLoading

\* one of the two requests of the Reports page has been rejected
reportRequestFailed == repHist.status = "fail" \/ repSum.status = "fail"

\* the transaction tx carries the fields of the history entry
mappedFrom(entry, tx) ==
  /\ tx.id = entry.id /\ tx.senedrId = entry.senderId
  /\ tx.receiverId = entry.receiverId /\ tx.amount = entry.amount
  /\ tx.createdAt = entry.transactionDate /\ tx.type = entry.transactionType

\* C20: in Reports, if getHistory or getSummary fails, the page ends in the
\* error state with error set to the failure's message (or 'Failed to load
\* report data.' when the failure is no Error), historyData empty,
\* overallSummary undefined and loading false, whatever the other request
\* does; when both succeed error stays null and historyData is the response
\* mapped entry by entry (id, senderId, receiverId, amount, transactionDate,
\* transactionType).
C20_ReportFailure ==
  /\ [][(page = "reports" /\ repFetch = "running" /\ repFetch' = "settled"
         /\ (repHist'.status = "fail" \/ repSum'.status = "fail"))
          => LET failure == IF repHist' # repHist THEN repHist' ELSE repSum'
             IN  /\ failure.status = "fail"
                 /\ repError' = IF failure.isError THEN failure.message
                                ELSE "Failed to load report data."]_vars
  /\ [][(page = "reports" /\ repFetch = "settled") => repError' = repError]_vars
  /\ [](page = "reports" /\ repFetch = "settled" /\ reportRequestFailed
          => /\ repError # "" /\ repView = "error"
             /\ historyData = <<>> /\ overallSummary = NoSummary /\ ~repLoading)
  /\ [](page = "reports" /\ repFetch = "settled" /\ ~reportRequestFailed
          => /\ repError = "" /\ ~repLoading
             /\ Len(historyData) = Len(repHist.data)
             /\ \A i \in 1..Len(historyData) : mappedFrom(repHist.data[i], historyData[i]))
  /\ [](page = "reports" /\ reportRequestFailed => repFetch = "settled")

\* getSummary failed after getHistory had succeeded with a non-empty history
C20_Witness ==
  /\ page = "reports" /\ event.kind = "failure"
  /\ repHist.status = "ok" /\ repHist.data # <<>>
  /\ repSum.status = "fail"
  /\ repError = "Network Error" /\ historyData = <<>> /\ ~repLoading

\* C21: in TransactionHistory a failed refresh leaves the displayed
\* transactions unchanged, whereas a failed load by the effect clears them to
\* the empty list; isRefreshing is true exactly while a refresh request is in
\* flight, and a refresh click while isRefreshing is true, or with no user
\* id, issues no request.
C21_RefreshKeepsList ==
  /\ [][(page = "history" /\ event'.kind = "failure" /\ refreshRequests # {}
         /\ refreshRequests' = {})
          => transactions' = transactions]_vars
  /\ [][(page = "history" /\ event'.kind = "failure" /\ effectRequests' # effectRequests)
          => transactions' = <<>>]_vars
  /\ [](page = "history" => (isRefreshing <=> refreshRequests # {}))
  /\ [][(page = "history" /\ event'.kind = "click" /\ (isRefreshing \/ UserId(user) = ""))
          => issued' = <<>> /\ histReqs' = histReqs]_vars

\* a refresh failed and the list fetched before is still displayed
C21_Witness ==
  /\ page = "history" /\ event.kind = "failure"
  /\ ~isRefreshing /\ refreshRequests = {} /\ histIssued >= 2
  /\ transactions # <<>>

\* the most recently issued request for the current user, or 0
latestRequest ==
  LET mine == { n \in 1..Len(histLog) : histLog[n].userId = UserId(user) }
  IN  IF mine = {} THEN 0 ELSE CHOOSE n \in mine : \A m \in mine : m <= n

\* C22 as stated: in TransactionHistory, once all in-flight getTransactions
\* requests (of the effect and of manual refresh) have settled, the displayed
\* transactions are the result of the most recently issued request for the
\* current user; a response to an earlier request never overwrites the
\* result of a later one.
C22_LatestRequestWins ==
  /\ [][(page = "history" /\ histWriter' # histWriter /\ histReqs' # histReqs)
          => histWriter' > histWriter]_vars
  /\ [](page = "history" /\ histReqs = {} /\ latestRequest # 0
          /\ histLog[latestRequest].status = "ok"
          => histWriter = latestRequest)

\* midnight at the start of the most recent Sunday, in ticks
startOfSunday(today) ==
  (dayNumber(today.year, today.month, today.day) - getDay(today)) * TicksPerDay

\* C23 as stated: TransactionHistory's 'This Week' time frame shows exactly
\* the transactions whose createdAt is on or after the start (00:00 local
\* time) of the most recent Sunday, whatever the current time of day.
C23_ThisWeek ==
  (page = "history" /\ timeFrame = "thisWeek")
    => LET sinceSunday(transaction) ==
             getTime(transaction.createdAt) >= startOfSunday(now)
       IN  filteredTransactions = SelectSeq(transactions, sinceSunday)

\* every transaction that period inner selects is selected by period outer
selectsWithin(inner, outer) ==
  filteredHistoryData(filteredHistoryData(historyData, outer, now), inner, now)
    = filteredHistoryData(historyData, inner, now)

\* C24: Reports' period filter is monotone: the transactions selected for
\* '1month' are among those for '3month', these among those for '6month',
\* and these among those for '1year'; every selected transaction has
\* startDate <= createdAt <= now, and an unrecognised period behaves as
\* '3month'.
C24_PeriodsNested ==
  page = "reports"
    => /\ selectsWithin("1month", "3month")
       /\ selectsWithin("3month", "6month")
       /\ selectsWithin("6month", "1year")
       /\ \A period \in ReportPeriods \cup {"2weeks"} :
            LET selected == filteredHistoryData(historyData, period, now)
            IN  /\ \A i \in 1..Len(selected) :
                     /\ startDate(period, now) <= getTime(selected[i].createdAt)
                     /\ getTime(selected[i].createdAt) <= getTime(now)
                /\ \A i \in 1..Len(historyData) :
                     (/\ startDate(period, now) <= getTime(historyData[i].createdAt)
                      /\ getTime(historyData[i].createdAt) <= getTime(now))
                       => \E j \in 1..Len(selected) : selected[j] = historyData[i]
       /\ filteredHistoryData(historyData, "2weeks", now)
            = filteredHistoryData(historyData, "3month", now)

\* a history was fetched of which the periods select ever more: one
\* transaction for '1month', two for '3month', three for '6month'
C24_Witness ==
  /\ page = "reports" /\ repFetch = "settled"
  /\ Len(filteredHistoryData(historyData, "1month", now)) = 1
  /\ Len(filteredHistoryData(historyData, "3month", now)) = 2
  /\ Len(filteredHistoryData(historyData, "6month", now)) = 3
  /\ Len(filteredHistoryData(historyData, "1year", now)) = 3

\* what C25 says of netFlow and of the two averages
flowAndAverages(stats) ==
  /\ stats.netFlow = minus(stats.totalReceived, stats.totalSent)
  /\ stats.averageSent.isNull <=> stats.sendCount = 0
  /\ stats.averageReceived.isNull <=> stats.receiveCount = 0

\* C25: in Reports' periodStats, for every history the reporting
\* API can return, transactionCount equals sendCount + receiveCount, netFlow
\* equals totalReceived - totalSent, and averageSent (averageReceived) is
\* null exactly when sendCount (receiveCount) is 0.
C25_PeriodStats ==
  page = "reports"
    => LET stats == periodStats(filteredHistoryData(historyData, reportPeriod, now))
       IN  /\ stats.transactionCount = stats.sendCount + stats.receiveCount
           /\ flowAndAverages(stats)

\* C26: every alert shown through showAlert is removed automatically 5000 ms
\* after it was shown unless the user closed it earlier, however many other
\* alerts are shown or closed in the meantime: no alert is displayed for
\* longer than 5000 ms, and one displayed for 5000 ms is about to be removed.
C26_AutoClose ==
  page = "alerts"
    => \A i \in 1..Len(alerts) :
         /\ alerts[i].age <= duration
         /\ alerts[i].age = duration => alerts[i].timer = 0

====
